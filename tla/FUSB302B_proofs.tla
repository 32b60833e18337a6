-------------------------- MODULE FUSB302B_proofs --------------------------
(***************************************************************************)
(* The safety of the FUSB302B driver for every queue length, every set of  *)
(* sources, every bound on the environment and every choice of faults.     *)
(* The last sections say what a step does to the messages of the source,   *)
(* seen as one pipe from the RX FIFO through the reader's hands to the     *)
(* queue: the invariants of the exchange look at that.                     *)
(***************************************************************************)
EXTENDS FUSB302B, WellFoundedInduction, TLAPS

(* What a sequence is ...                                                  *)
LEMMA SeqShape ==
  ASSUME NEW S, NEW s \in Seq(S)
  PROVE  /\ Len(s) \in Nat /\ (s # <<>> => Len(s) # 0)
         /\ \A i \in 1..Len(s) : s[i] \in S
BY SMTT(30)

(* ... when two are the same ...                                           *)
LEMMA SeqSame ==
  ASSUME NEW S, NEW s \in Seq(S), NEW t \in Seq(S),
         Len(s) = Len(t), \A i \in 1..Len(s) : s[i] = t[i]
  PROVE  s = t
BY SMTT(30)

(* ... what they are in a row ...                                          *)
LEMMA SeqJoined ==
  ASSUME NEW S, NEW s \in Seq(S), NEW t \in Seq(S)
  PROVE  /\ s \o t \in Seq(S) /\ Len(s \o t) = Len(s) + Len(t)
         /\ \A i \in 1..(Len(s) + Len(t)) :
              (s \o t)[i] = IF i <= Len(s) THEN s[i] ELSE t[i - Len(s)]
BY SMTT(30)

(* ... what is left when one is taken from ...                             *)
LEMMA SeqTaken ==
  ASSUME NEW S, NEW s \in Seq(S), s # <<>>
  PROVE  /\ Head(s) \in S /\ Tail(s) \in Seq(S) /\ Len(Tail(s)) = Len(s) - 1
         /\ \A i \in 1..Len(Tail(s)) : Tail(s)[i] = s[i + 1]
BY SMTT(30)

(* ... and what it is when one is added to.                                *)
LEMMA SeqAdded ==
  ASSUME NEW S, NEW s \in Seq(S), NEW m \in S
  PROVE  /\ Append(s, m) \in Seq(S) /\ Append(s, m) # <<>> /\ Len(Append(s, m)) = Len(s) + 1
         /\ \A i \in 1..Len(s) : Append(s, m)[i] = s[i]
         /\ Append(s, m)[Len(s) + 1] = m
BY SMTT(30)

(* The least-number principle, from the well-foundedness of < on Nat.      *)
LEMMA LeastNatural ==
  ASSUME NEW T \in SUBSET Nat, T # {}
  PROVE  \E x \in T : \A y \in T : x <= y
<1>1. IsWellFoundedOn(OpToRel(<, Nat), Nat)
  BY NatLessThanWellFounded, Zenon
<1>2. PICK x \in T : \A y \in T : ~ (<<y, x>> \in OpToRel(<, Nat))
  BY <1>1, WFMin, Zenon
<1>3. \A y \in T : ~ (y < x)
  BY <1>2, Zenon DEF OpToRel
<1>. QED
  BY <1>3, SMTT(30)

(* A non-empty set of naturals up to n has the maximum Max chooses.        *)
LEMMA MaxOfBounded ==
  ASSUME NEW n \in Nat, NEW T \in SUBSET (1..n), T # {}
  PROVE  Max(T) \in T /\ \A y \in T : y <= Max(T)
<1>. DEFINE D == {d \in Nat : n - d \in T}
<1>1. D # {}
  <2>1. PICK t \in T : TRUE
    BY Zenon
  <2>2. n - t \in Nat /\ n - (n - t) = t
    BY <2>1, SMTT(30)
  <2>. QED
    BY <2>1, <2>2, Zenon
<1>2. PICK d \in D : \A y \in D : d <= y
  BY <1>1, LeastNatural, Zenon
<1>3. \A t \in T : n - t \in D
  <2>. TAKE t \in T
  <2>1. n - t \in Nat /\ n - (n - t) = t
    BY SMTT(30)
  <2>. QED
    BY <2>1, Zenon
<1>4. n - d \in T /\ \A y \in T : n - d >= y
  BY <1>2, <1>3, SMTT(30)
<1>5. \E x \in T : \A y \in T : x >= y
  BY <1>4, Zenon
<1>. QED
  BY <1>5, Zenon DEF Max

(* What is requested is always a well-formed contract.                     *)
LEMMA RequestedContractType ==
  ASSUME NEW infos \in Seq(Contracts), NEW v
  PROVE  RequestedContract(infos, v) \in Contracts
<1>1. FallbackContract \in Contracts
  BY SMTT(30) DEF FallbackContract, Contract, Contracts, FIXED_SUPPLY
<1>2. ASSUME SelectPdo(infos, v) # NONE_SELECTED
      PROVE  infos[SelectPdo(infos, v) + 1] \in Contracts
  <2>. DEFINE A == Assigned(infos, v)
  <2>1. A \in SUBSET (1..Len(infos)) /\ Len(infos) \in Nat
    BY SMTT(30) DEF Assigned
  <2>2. A # {} /\ SelectPdo(infos, v) = Max(A) - 1
    BY <1>2, Zenon DEF SelectPdo
  <2>. HIDE DEF A
  <2>3. Max(A) \in 1..Len(infos)
    BY <2>1, <2>2, MaxOfBounded, Zenon
  <2>4. SelectPdo(infos, v) + 1 \in 1..Len(infos)
    BY <2>2, <2>3, SMTT(30)
  <2>. QED
    BY <2>4, SMTT(30)
<1>. QED
  BY <1>1, <1>2, Zenon DEF RequestedContract

-----------------------------------------------------------------------------
(* What the steps of the trigger task and of the source have in common.    *)

(* Every handler leaves alone what the phases of the driver depend on.     *)
LEMMA HandlersKeepPhase ==
  ASSUME TriggerReceive \/ TriggerSoftReset
  PROVE  /\ UNCHANGED <<pc, hw_state_, startup_delay_, failed, vbus_lost_, reader, isr,
                        chipVars, sent>>
         /\ trigger \in {"receive", "soft_reset"} /\ trigger' \in {"receive", "soft_reset"}
BY Zenon DEF TriggerReceive, TriggerSoftReset, hwVars, autoVars

(* The handlers can only end the wait for SOURCE_CAP.                      *)
LEMMA HandlersEndTheWait ==
  ASSUME TriggerReceive \/ TriggerSoftReset
  PROVE  /\ tried_soft_reset_' = tried_soft_reset_ /\ pc' = pc /\ sent' = sent
         /\ get_src_cap_retry_count_' = get_src_cap_retry_count_
         /\ wait_src_cap_' = wait_src_cap_ \/ wait_src_cap_' = FALSE
<1>1. CASE TriggerReceive
  <2>. DEFINE m == Head(message_queue_)
  <2>1. UNCHANGED <<pc, sent>> /\ handle_message(m)
    BY <1>1, Zenon DEF TriggerReceive, autoVars
  <2>. HIDE DEF m
  <2>2. /\ UNCHANGED <<tried_soft_reset_, get_src_cap_retry_count_>>
        /\ wait_src_cap_' = wait_src_cap_ \/ wait_src_cap_' = FALSE
    BY <2>1, Zenon DEF handle_message, handle_goodcrc, handle_duplicate, handle_source_cap,
                handle_other_data, handle_accept, handle_ps_rdy, handle_soft_reset_send,
                handle_query, capVars
  <2>. QED
    BY <2>1, <2>2, Zenon
<1>2. CASE TriggerSoftReset
  BY <1>2, Zenon DEF TriggerSoftReset, handle_soft_reset_rest, capVars, autoVars
<1>. QED
  BY <1>1, <1>2, Zenon

(* Whatever the source sends, it sends with AUTO_CRC on and the chip       *)
(* latches GCRCSENT.                                                       *)
LEMMA SourceRaisesIrq ==
  ASSUME SourceStep \/ SourceExtra
  PROVE  /\ auto_crc /\ RaiseIrq({"GCRCSENT"})
         /\ UNCHANGED <<pdVars, hwVars, vbus_lost_, pc, deferred, taskVars, auto_crc, autoVars>>
<1>1. CASE SourceStep
  BY <1>1, Zenon DEF SourceStep, SourceSends
<1>2. CASE SourceExtra
  BY <1>2, Zenon DEF SourceExtra, SourceSends
<1>. QED
  BY <1>1, <1>2, Zenon

-----------------------------------------------------------------------------
(* The driver is always in one of its five phases.                         *)
LEMMA PhaseInvStep == PhaseInv /\ [Next]_vars => PhaseInv'
<1>. SUFFICES ASSUME PhaseInv, [Next]_vars
              PROVE  PhaseInv'
  BY Zenon
<1>. USE DEF PhaseInv, Starting, Measuring, Spawning, Running, Stopped, FirstAttach, LaterPcs,
             hwVars, taskVars, chipVars
<1>1. CASE Setup
  BY <1>1, Zenon DEF Setup
<1>2. CASE RunDeferred
  BY <1>2, Zenon DEF RunDeferred
<1>3. CASE RequestVoltage
  BY <1>3, Zenon DEF RequestVoltage
<1>4. CASE LoopStart
  BY <1>4, Zenon DEF LoopStart
<1>5. CASE LoopDetachReset
  BY <1>5, Zenon DEF LoopDetachReset, fusb_reset_
<1>6. CASE LoopDetachState
  BY <1>6, Zenon DEF LoopDetachState
<1>7. CASE LoopCcIdle
  BY <1>7, Zenon DEF LoopCcIdle
<1>8. CASE LoopCcSettle1
  BY <1>8, Zenon DEF LoopCcSettle1
<1>9. CASE LoopCcSettle2
  BY <1>9, Zenon DEF LoopCcSettle2
<1>10. CASE LoopSpawn
  BY <1>10, Zenon DEF LoopSpawn
<1>11. CASE LoopReattachCrc
  BY <1>11, Zenon DEF LoopReattachCrc, enable_auto_crc
<1>12. CASE LoopReattachReset
  BY <1>12, Zenon DEF LoopReattachReset, fusb_reset_
<1>13. CASE LoopArm
  BY <1>13, Zenon DEF LoopArm
<1>14. CASE LoopAttached
  BY <1>14, Zenon DEF LoopAttached
<1>15. CASE LoopSoftReset
  BY <1>15, Zenon DEF LoopSoftReset, fusb_reset_
<1>16. CASE LoopSend
  BY <1>16, Zenon DEF LoopSend
<1>17. CASE LoopPdTimeout
  BY <1>17, Zenon DEF LoopPdTimeout
<1>18. CASE LoopTimer
  BY <1>18, Zenon DEF LoopTimer
<1>19. CASE TriggerCreate
  BY <1>19, Zenon DEF TriggerCreate
<1>20. CASE TriggerReceive
  BY <1>20, HandlersKeepPhase, Zenon DEF chipVars
<1>21. CASE TriggerSoftReset
  BY <1>21, HandlersKeepPhase, Zenon DEF chipVars
<1>22. CASE ReaderCrc
  BY <1>22, Zenon DEF ReaderCrc, enable_auto_crc
<1>23. CASE ReaderReset
  BY <1>23, Zenon DEF ReaderReset, fusb_reset_
<1>24. CASE ReaderWake
  BY <1>24, Zenon DEF ReaderWake
<1>25. CASE ReaderStatus
  BY <1>25, Zenon DEF ReaderStatus
<1>26. CASE ReaderDrain
  BY <1>26, Zenon DEF ReaderDrain
<1>27. CASE ReaderEnqueue
  BY <1>27, Zenon DEF ReaderEnqueue
<1>28. CASE Plug
  BY <1>28, Zenon DEF Plug, CableMoves, RaiseIrq
<1>29. CASE Unplug
  BY <1>29, Zenon DEF Unplug, CableMoves, RaiseIrq
<1>30. CASE TxLost
  BY <1>30, Zenon DEF TxLost
<1>31. CASE SourceStep
  <2>1. auto_crc /\ RaiseIrq({"GCRCSENT"}) /\ UNCHANGED <<hwVars, vbus_lost_, pc, taskVars, auto_crc>>
    BY <1>31, SourceRaisesIrq, SMTT(30)
  <2>. QED
    BY <2>1, Zenon DEF RaiseIrq
<1>32. CASE SourceExtra
  <2>1. auto_crc /\ RaiseIrq({"GCRCSENT"}) /\ UNCHANGED <<hwVars, vbus_lost_, pc, taskVars, auto_crc>>
    BY <1>32, SourceRaisesIrq, Zenon
  <2>. QED
    BY <2>1, Zenon DEF RaiseIrq
<1>33. CASE SourceReceives
  BY <1>33, Zenon DEF SourceReceives
<1>34. CASE Elapse
  BY <1>34, SMTT(30) DEF Elapse
<1>35. CASE Reboot
  BY <1>35, Zenon DEF Reboot
<1>36. CASE UNCHANGED vars
  BY <1>36, Zenon DEF vars
<1>. HIDE DEF PhaseInv, Starting, Measuring, Spawning, Running, Stopped, FirstAttach, LaterPcs,
             hwVars, taskVars, chipVars
<1>. QED
  BY <1>1, <1>2, <1>3, <1>4, <1>5, <1>6, <1>7, <1>8, <1>9, <1>10, <1>11, <1>12,
     <1>13, <1>14, <1>15, <1>16, <1>17, <1>18, <1>19, <1>20, <1>21, <1>22, <1>23,
     <1>24, <1>25, <1>26, <1>27, <1>28, <1>29, <1>30, <1>31, <1>32, <1>33, <1>34,
     <1>35, <1>36, SMTT(30)
  DEF Next, MainLoop, TriggerTask, ReaderTask, Environment

(* No INT_N edge is lost, whatever the tasks and the source do.            *)
LEMMA WakeupInvStep == PhaseInv /\ WakeupInv /\ [Next]_vars => WakeupInv'
<1>. SUFFICES ASSUME PhaseInv, WakeupInv, [Next]_vars
              PROVE  WakeupInv'
  BY Zenon
<1>. USE DEF PhaseInv, Starting, Measuring, Spawning, Running, Stopped, WakeupInv, NoLostWakeup,
             hwVars, taskVars, chipVars
<1>1. CASE Setup
  BY <1>1, Zenon DEF Setup
<1>2. CASE RunDeferred
  BY <1>2, Zenon DEF RunDeferred
<1>3. CASE RequestVoltage
  BY <1>3, Zenon DEF RequestVoltage
<1>4. CASE LoopStart
  BY <1>4, Zenon DEF LoopStart
<1>5. CASE LoopDetachReset
  BY <1>5, Zenon DEF LoopDetachReset, fusb_reset_
<1>6. CASE LoopDetachState
  BY <1>6, Zenon DEF LoopDetachState
<1>7. CASE LoopCcIdle
  BY <1>7, Zenon DEF LoopCcIdle
<1>8. CASE LoopCcSettle1
  BY <1>8, Zenon DEF LoopCcSettle1
<1>9. CASE LoopCcSettle2
  BY <1>9, Zenon DEF LoopCcSettle2
<1>10. CASE LoopSpawn
  BY <1>10, Zenon DEF LoopSpawn
<1>11. CASE LoopReattachCrc
  BY <1>11, Zenon DEF LoopReattachCrc, enable_auto_crc
<1>12. CASE LoopReattachReset
  BY <1>12, Zenon DEF LoopReattachReset, fusb_reset_
<1>13. CASE LoopArm
  BY <1>13, Zenon DEF LoopArm
<1>14. CASE LoopAttached
  BY <1>14, Zenon DEF LoopAttached
<1>15. CASE LoopSoftReset
  BY <1>15, Zenon DEF LoopSoftReset, fusb_reset_
<1>16. CASE LoopSend
  BY <1>16, Zenon DEF LoopSend
<1>17. CASE LoopPdTimeout
  BY <1>17, Zenon DEF LoopPdTimeout
<1>18. CASE LoopTimer
  BY <1>18, Zenon DEF LoopTimer
<1>19. CASE TriggerCreate
  BY <1>19, Zenon DEF TriggerCreate
<1>20. CASE TriggerReceive
  BY <1>20, HandlersKeepPhase, Zenon DEF chipVars
<1>21. CASE TriggerSoftReset
  BY <1>21, HandlersKeepPhase, Zenon DEF chipVars
<1>22. CASE ReaderCrc
  BY <1>22, Zenon DEF ReaderCrc, enable_auto_crc
<1>23. CASE ReaderReset
  BY <1>23, Zenon DEF ReaderReset, fusb_reset_
<1>24. CASE ReaderWake
  BY <1>24, Zenon DEF ReaderWake
<1>25. CASE ReaderStatus
  BY <1>25, Zenon DEF ReaderStatus
<1>26. CASE ReaderDrain
  BY <1>26, Zenon DEF ReaderDrain
<1>27. CASE ReaderEnqueue
  BY <1>27, Zenon DEF ReaderEnqueue
<1>28. CASE Plug
  BY <1>28, Zenon DEF Plug, CableMoves, RaiseIrq
<1>29. CASE Unplug
  BY <1>29, Zenon DEF Unplug, CableMoves, RaiseIrq
<1>30. CASE TxLost
  BY <1>30, Zenon DEF TxLost
<1>31. CASE SourceStep
  <2>1. auto_crc /\ RaiseIrq({"GCRCSENT"}) /\ UNCHANGED <<hwVars, vbus_lost_, pc, taskVars, auto_crc>>
    BY <1>31, SourceRaisesIrq, Zenon
  <2>. QED
    BY <2>1, Zenon DEF RaiseIrq
<1>32. CASE SourceExtra
  <2>1. auto_crc /\ RaiseIrq({"GCRCSENT"}) /\ UNCHANGED <<hwVars, vbus_lost_, pc, taskVars, auto_crc>>
    BY <1>32, SourceRaisesIrq, Zenon
  <2>. QED
    BY <2>1, Zenon DEF RaiseIrq
<1>33. CASE SourceReceives
  BY <1>33, Zenon DEF SourceReceives
<1>34. CASE Elapse
  BY <1>34, SMTT(30) DEF Elapse
<1>35. CASE Reboot
  BY <1>35, Zenon DEF Reboot
<1>36. CASE UNCHANGED vars
  BY <1>36, Zenon DEF vars
<1>. HIDE DEF PhaseInv, Starting, Measuring, Spawning, Running, Stopped, WakeupInv, NoLostWakeup,
             hwVars, taskVars, chipVars
<1>. QED
  BY <1>1, <1>2, <1>3, <1>4, <1>5, <1>6, <1>7, <1>8, <1>9, <1>10, <1>11, <1>12,
     <1>13, <1>14, <1>15, <1>16, <1>17, <1>18, <1>19, <1>20, <1>21, <1>22, <1>23,
     <1>24, <1>25, <1>26, <1>27, <1>28, <1>29, <1>30, <1>31, <1>32, <1>33, <1>34,
     <1>35, <1>36, SMTT(30)
  DEF Next, MainLoop, TriggerTask, ReaderTask, Environment

(* The bookkeeping of the soft reset.                                      *)
LEMMA SoftResetInvStep == SoftResetInv /\ [Next]_vars => SoftResetInv'
<1>. SUFFICES ASSUME SoftResetInv, [Next]_vars
              PROVE  SoftResetInv'
  BY Zenon
<1>. USE DEF SoftResetInv, pdVars, capVars, autoVars
<1>1. CASE Setup
  BY <1>1, Zenon DEF Setup
<1>2. CASE RunDeferred
  BY <1>2, Zenon DEF RunDeferred
<1>3. CASE RequestVoltage
  BY <1>3, SMTT(30) DEF RequestVoltage, request_voltage
<1>4. CASE LoopStart
  BY <1>4, Zenon DEF LoopStart
<1>5. CASE LoopDetachReset
  BY <1>5, Zenon DEF LoopDetachReset, fusb_reset_
<1>6. CASE LoopDetachState
  BY <1>6, Zenon DEF LoopDetachState
<1>7. CASE LoopCcIdle
  BY <1>7, Zenon DEF LoopCcIdle
<1>8. CASE LoopCcSettle1
  BY <1>8, Zenon DEF LoopCcSettle1
<1>9. CASE LoopCcSettle2
  BY <1>9, Zenon DEF LoopCcSettle2
<1>10. CASE LoopSpawn
  BY <1>10, Zenon DEF LoopSpawn
<1>11. CASE LoopReattachCrc
  BY <1>11, Zenon DEF LoopReattachCrc, enable_auto_crc
<1>12. CASE LoopReattachReset
  BY <1>12, Zenon DEF LoopReattachReset, fusb_reset_
<1>13. CASE LoopArm
  BY <1>13, SMTT(30) DEF LoopArm
<1>14. CASE LoopAttached
  BY <1>14, SMTT(30) DEF LoopAttached, CapDue, AmsBusy
<1>15. CASE LoopSoftReset
  BY <1>15, Zenon DEF LoopSoftReset, fusb_reset_
<1>16. CASE LoopSend
  BY <1>16, SMTT(30) DEF LoopSend
<1>17. CASE LoopPdTimeout
  BY <1>17, Zenon DEF LoopPdTimeout
<1>18. CASE LoopTimer
  BY <1>18, Zenon DEF LoopTimer
<1>19. CASE TriggerCreate
  BY <1>19, Zenon DEF TriggerCreate
<1>20. CASE TriggerReceive
  <2>1. /\ tried_soft_reset_' = tried_soft_reset_ /\ pc' = pc /\ sent' = sent
        /\ get_src_cap_retry_count_' = get_src_cap_retry_count_
        /\ wait_src_cap_' = wait_src_cap_ \/ wait_src_cap_' = FALSE
    BY <1>20, HandlersEndTheWait, Zenon
  <2>. QED
    BY <2>1, SMTT(30)
<1>21. CASE TriggerSoftReset
  <2>1. /\ tried_soft_reset_' = tried_soft_reset_ /\ pc' = pc /\ sent' = sent
        /\ get_src_cap_retry_count_' = get_src_cap_retry_count_
        /\ wait_src_cap_' = wait_src_cap_ \/ wait_src_cap_' = FALSE
    BY <1>21, HandlersEndTheWait, Zenon
  <2>. QED
    BY <2>1, SMTT(30)
<1>22. CASE ReaderCrc
  BY <1>22, Zenon DEF ReaderCrc, enable_auto_crc
<1>23. CASE ReaderReset
  BY <1>23, Zenon DEF ReaderReset, fusb_reset_
<1>24. CASE ReaderWake
  BY <1>24, Zenon DEF ReaderWake
<1>25. CASE ReaderStatus
  BY <1>25, Zenon DEF ReaderStatus
<1>26. CASE ReaderDrain
  BY <1>26, Zenon DEF ReaderDrain
<1>27. CASE ReaderEnqueue
  BY <1>27, Zenon DEF ReaderEnqueue
<1>28. CASE Plug
  BY <1>28, Zenon DEF Plug, CableMoves, RaiseIrq
<1>29. CASE Unplug
  BY <1>29, Zenon DEF Unplug, CableMoves, RaiseIrq
<1>30. CASE TxLost
  BY <1>30, Zenon DEF TxLost
<1>31. CASE SourceStep
  BY <1>31, SourceRaisesIrq, SMTT(30)
<1>32. CASE SourceExtra
  BY <1>32, SourceRaisesIrq, SMTT(30)
<1>33. CASE SourceReceives
  BY <1>33, Zenon DEF SourceReceives
<1>34. CASE Elapse
  BY <1>34, SMTT(30) DEF Elapse
<1>35. CASE Reboot
  BY <1>35, SMTT(30) DEF Reboot
<1>36. CASE UNCHANGED vars
  BY <1>36, Zenon DEF vars
<1>. HIDE DEF SoftResetInv, pdVars, capVars, autoVars
<1>. QED
  BY <1>1, <1>2, <1>3, <1>4, <1>5, <1>6, <1>7, <1>8, <1>9, <1>10, <1>11, <1>12,
     <1>13, <1>14, <1>15, <1>16, <1>17, <1>18, <1>19, <1>20, <1>21, <1>22, <1>23,
     <1>24, <1>25, <1>26, <1>27, <1>28, <1>29, <1>30, <1>31, <1>32, <1>33, <1>34,
     <1>35, <1>36, SMTT(30)
  DEF Next, MainLoop, TriggerTask, ReaderTask, Environment

-----------------------------------------------------------------------------
(* Types.                                                                  *)

(* The messages built from a type, an id and objects.                      *)
LEMMA MessageTypes ==
  ASSUME NEW type \in MsgTypes, NEW id \in 0..7
  PROVE  /\ CntrlMsg(type, id) \in Messages
         /\ \A objs \in Seq(Contracts) : Msg(type, id, objs) \in Messages
         /\ type # "REQUEST" => CntrlMsg(type, id) \in SinkMessages
         /\ \A c \in Contracts : Msg(type, id, <<c>>) \in SinkMessages
<1>1. <<>> \in Seq(Contracts) /\ \A c \in Contracts : <<c>> \in Seq(Contracts) /\ <<c>> # <<>>
  BY SMTT(30)
<1>. QED
  BY <1>1, Zenon DEF CntrlMsg, Msg, Messages, SinkMessages

(* The constant values are of their types.                                 *)
LEMMA ConstantTypes ==
  /\ NoContract \in Contracts /\ SinkCap \in Contracts /\ FallbackContract \in Contracts
  /\ NoMsg \in Messages /\ NoSource \in SourceStates /\ Sources \subseteq SourceStates
<1>1. NoContract \in Contracts /\ SinkCap \in Contracts /\ FallbackContract \in Contracts
  BY SMTT(30) DEF NoContract, SinkCap, FallbackContract, Contract, Contracts, FIXED_SUPPLY
<1>2. NoMsg \in Messages
  <2>1. "NONE" \in MsgTypes /\ 0 \in 0..7
    BY SMTT(30) DEF MsgTypes
  <2>. QED
    BY <2>1, MessageTypes, Zenon DEF NoMsg
<1>3. 0 \in 0..7 /\ NO_MSG_ID \in 0..7 \union {NO_MSG_ID} /\ <<>> \in Seq(Contracts)
  BY SMTT(30)
<1>4. NoSource \in SourceStates
  BY <1>1, <1>3, Zenon DEF NoSource, SourceStates, SourceModes
<1>5. ASSUME NEW caps \in SourceCaps, NEW cc \in CcLines
      PROVE  PluggedSource(caps, cc) \in SourceStates
  <2>1. ASSUME NEW mode \in SourceModes
        PROVE  [NoSource EXCEPT !.plugged = TRUE, !.cc = cc, !.caps = caps, !.mode = mode]
                 \in SourceStates
    BY <1>4, SourceCapsAssumption, CcLinesAssumption, Zenon DEF SourceStates
  <2>2. (IF caps = <<>> THEN "off" ELSE "caps") \in SourceModes
    BY Zenon DEF SourceModes
  <2>. QED
    BY <2>1, <2>2, Zenon DEF PluggedSource
<1>6. Sources \subseteq SourceStates
  BY <1>5, SMTT(30) DEF Sources
<1>. QED
  BY <1>1, <1>2, <1>4, <1>6, Zenon

(* The id of the next message is three bits of the counter.                *)
LEMMA NextIdType ==
  ASSUME PdTypeOK
  PROVE  NextId \in 0..7
BY SMTT(30) DEF PdTypeOK, NextId

(* Sending keeps the type of the TX FIFO ...                               *)
LEMMA SendType ==
  ASSUME tx_fifo \in Seq(SinkMessages), NEW m \in SinkMessages, send_message(m)
  PROVE  tx_fifo' \in Seq(SinkMessages)
BY SeqAdded, SMTT(30) DEF send_message

(* ... and resetting the chip those of both FIFOs and of the ids.          *)
LEMMA ResetType ==
  ASSUME PdTypeOK, rx_fifo \in Seq(Messages), fusb_reset_
  PROVE  /\ rx_fifo' \in Seq(Messages) /\ tx_fifo' \in Seq(SinkMessages)
         /\ last_received_msg_id_' \in 0..7 \union {NO_MSG_ID} /\ msg_counter_' \in 0..255
<1>1. CASE /\ rx_fifo' = <<>> /\ tx_fifo' = <<>>
           /\ last_received_msg_id_' = NO_MSG_ID /\ msg_counter_' = 0
  BY <1>1, SMTT(30)
<1>2. CASE UNCHANGED <<rx_fifo, tx_fifo, idVars>>
  BY <1>2, Zenon DEF PdTypeOK, idVars
<1>. QED
  BY <1>1, <1>2, Zenon DEF fusb_reset_

(* Every handler keeps the members' types.                                 *)
LEMMA HandlerType ==
  ASSUME PdTypeOK, NEW m \in Messages, handle_message(m)
  PROVE  PdTypeOK'
<1>. USE DEF stateVars, idVars, contractVars, capVars
<1>0. m.id \in 0..7 /\ m.objs \in Seq(Contracts) /\ m.type \in MsgTypes
  BY Zenon DEF Messages
<1>1. CASE handle_goodcrc
  BY <1>1, SMTT(30) DEF handle_goodcrc, PdTypeOK
<1>2. CASE handle_duplicate
  BY <1>2, Zenon DEF handle_duplicate, PdTypeOK
<1>3. CASE handle_source_cap(m)
  <2>1. requested_contract_' \in Contracts
    BY <1>0, <1>3, RequestedContractType, Zenon DEF handle_source_cap
  <2>2. Msg("REQUEST", NextId, <<requested_contract_'>>) \in SinkMessages
    <3>1. "REQUEST" \in MsgTypes
      BY Zenon DEF MsgTypes
    <3>. QED
      BY <2>1, <3>1, NextIdType, MessageTypes, Zenon
  <2>3. tx_fifo' \in Seq(SinkMessages)
    BY <1>3, <2>2, SendType, Zenon DEF handle_source_cap, PdTypeOK
  <2>. QED
    BY <1>0, <1>3, <2>1, <2>3, Zenon DEF handle_source_cap, PdTypeOK
<1>4. CASE handle_other_data(m)
  BY <1>0, <1>4, Zenon DEF handle_other_data, PdTypeOK
<1>5. CASE handle_accept(m)
  BY <1>0, <1>5, Zenon DEF handle_accept, PdTypeOK, set_state_, PdStates
<1>6. CASE handle_ps_rdy(m)
  BY <1>0, <1>6, Zenon DEF handle_ps_rdy, PdTypeOK, set_state_, PdStates
<1>7. CASE handle_soft_reset_send(m)
  <2>1. tx_fifo' \in Seq(SinkMessages)
    <3>0. "ACCEPT" \in MsgTypes /\ 0 \in 0..7 /\ "ACCEPT" # "REQUEST"
      BY SMTT(30) DEF MsgTypes
    <3>1. CntrlMsg("ACCEPT", 0) \in SinkMessages
      BY <3>0, MessageTypes, Zenon
    <3>. QED
      BY <1>7, <3>1, SendType, Zenon DEF handle_soft_reset_send, PdTypeOK
  <2>. QED
    BY <1>0, <1>7, <2>1, Zenon DEF handle_soft_reset_send, PdTypeOK
<1>8. CASE handle_query(m)
  <2>1. /\ Msg("SINK_CAP", NextId, <<SinkCap>>) \in SinkMessages
        /\ CntrlMsg("NOT_SUPPORTED", NextId) \in SinkMessages
    <3>1. "SINK_CAP" \in MsgTypes /\ "NOT_SUPPORTED" \in MsgTypes /\ "NOT_SUPPORTED" # "REQUEST"
      BY Zenon DEF MsgTypes
    <3>. QED
      BY <3>1, NextIdType, MessageTypes, ConstantTypes, Zenon
  <2>2. tx_fifo' \in Seq(SinkMessages)
    BY <1>8, <2>1, SendType, Zenon DEF handle_query, PdTypeOK
  <2>. QED
    BY <1>0, <1>8, <2>2, SMTT(30) DEF handle_query, PdTypeOK
<1>. QED
  BY <1>1, <1>2, <1>3, <1>4, <1>5, <1>6, <1>7, <1>8, Zenon DEF handle_message

(* The members of PowerDelivery keep their types.                          *)
LEMMA PdTypeStep == TypeOK /\ [Next]_vars => PdTypeOK'
<1>. SUFFICES ASSUME PdTypeOK, DriverTypeOK, WorldTypeOK, [Next]_vars
              PROVE  PdTypeOK'
  BY Zenon DEF TypeOK
<1>. USE DEF PdTypeOK, pdVars, stateVars, idVars, contractVars, capVars, PdStates, set_state_
<1>1. CASE Setup
  <2>1. state_' \in PdStates /\ prev_state_' \in PdStates
    <3>1. UNCHANGED <<state_, prev_state_>> \/ (prev_state_' = state_ /\ state_' = "ERROR")
      BY <1>1, Zenon DEF Setup
    <3>. QED
      BY <3>1, Zenon
  <2>2. tx_fifo' \in Seq(SinkMessages)
    <3>1. tx_fifo' = tx_fifo \/ tx_fifo' = <<>>
      BY <1>1, Zenon DEF Setup
    <3>2. tx_fifo \in Seq(SinkMessages) /\ <<>> \in Seq(SinkMessages)
      BY SMTT(30)
    <3>. QED
      BY <3>1, <3>2, Zenon
  <2>. QED
    BY <1>1, <2>1, <2>2, Zenon DEF Setup
<1>2. CASE RunDeferred
  BY <1>2, SMTT(30) DEF RunDeferred
<1>3. CASE RequestVoltage
  BY <1>3, VoltagesAssumption, SMTT(30) DEF RequestVoltage, request_voltage
<1>4. CASE LoopStart
  BY <1>4, ZenonT(60) DEF LoopStart
<1>5. CASE LoopDetachReset
  BY <1>5, ResetType, SMTT(30) DEF LoopDetachReset, WorldTypeOK
<1>6. CASE LoopDetachState
  BY <1>6, Zenon DEF LoopDetachState
<1>7. CASE LoopCcIdle
  BY <1>7, SMTT(30) DEF LoopCcIdle
<1>8. CASE LoopCcSettle1
  BY <1>8, SMTT(30) DEF LoopCcSettle1
<1>9. CASE LoopCcSettle2
  BY <1>9, SMTT(30) DEF LoopCcSettle2
<1>10. CASE LoopSpawn
  BY <1>10, Zenon DEF LoopSpawn
<1>11. CASE LoopReattachCrc
  BY <1>11, SMTT(30) DEF LoopReattachCrc, enable_auto_crc
<1>12. CASE LoopReattachReset
  BY <1>12, ResetType, SMTT(30) DEF LoopReattachReset, WorldTypeOK
<1>13. CASE LoopArm
  BY <1>13, Zenon DEF LoopArm
<1>14. CASE LoopAttached
  BY <1>14, SMTT(30) DEF LoopAttached, AmsBusy
<1>15. CASE LoopSoftReset
  BY <1>15, ResetType, SMTT(30) DEF LoopSoftReset, WorldTypeOK
<1>16. CASE LoopSend
  <2>. DEFINE type == IF get_src_cap_retry_count_ < 2 THEN "GET_SOURCE_CAP" ELSE "SOFT_RESET"
  <2>1. type \in MsgTypes /\ type # "REQUEST"
    BY Zenon DEF MsgTypes
  <2>2. CntrlMsg(type, NextId) \in SinkMessages
    BY <2>1, NextIdType, MessageTypes, Zenon
  <2>3. tx_fifo' \in Seq(SinkMessages)
    BY <1>16, <2>2, SendType, Zenon DEF LoopSend
  <2>4. /\ get_src_cap_retry_count_' \in {get_src_cap_retry_count_, 2}
        /\ tried_soft_reset_' \in {tried_soft_reset_, TRUE}
    BY <1>16, Zenon DEF LoopSend
  <2>5. get_src_cap_retry_count_' \in Nat
    <3>1. get_src_cap_retry_count_ \in Nat /\ 2 \in Nat
      BY Zenon
    <3>. QED
      BY <2>4, <3>1, Zenon
  <2>6. tried_soft_reset_' \in BOOLEAN
    BY <2>4, Zenon
  <2>. QED
    BY <1>16, <2>3, <2>5, <2>6, SMTT(30) DEF LoopSend
<1>17. CASE LoopPdTimeout
  BY <1>17, Zenon DEF LoopPdTimeout
<1>18. CASE LoopTimer
  BY <1>18, ZenonT(60) DEF LoopTimer
<1>19. CASE TriggerCreate
  BY <1>19, SMTT(30) DEF TriggerCreate
<1>20. CASE TriggerReceive
  <2>1. Head(message_queue_) \in Messages
    BY <1>20, SeqTaken, Zenon DEF TriggerReceive, DriverTypeOK
  <2>. QED
    BY <1>20, <2>1, HandlerType, ZenonT(60) DEF TriggerReceive
<1>21. CASE TriggerSoftReset
  BY <1>21, SMTT(30) DEF TriggerSoftReset, handle_soft_reset_rest
<1>22. CASE ReaderCrc
  BY <1>22, SMTT(30) DEF ReaderCrc, enable_auto_crc
<1>23. CASE ReaderReset
  BY <1>23, ResetType, SMTT(30) DEF ReaderReset, WorldTypeOK
<1>24. CASE ReaderWake
  BY <1>24, SMTT(30) DEF ReaderWake
<1>25. CASE ReaderStatus
  BY <1>25, SMTT(30) DEF ReaderStatus
<1>26. CASE ReaderDrain
  BY <1>26, SMTT(30) DEF ReaderDrain
<1>27. CASE ReaderEnqueue
  BY <1>27, SMTT(30) DEF ReaderEnqueue
<1>28. CASE Plug
  BY <1>28, SMTT(30) DEF Plug, CableMoves, RaiseIrq
<1>29. CASE Unplug
  BY <1>29, SMTT(30) DEF Unplug, CableMoves, RaiseIrq
<1>30. CASE TxLost
  BY <1>30, SeqTaken, SMTT(30) DEF TxLost
<1>31. CASE SourceStep
  BY <1>31, SourceRaisesIrq, SMTT(30)
<1>32. CASE SourceExtra
  BY <1>32, SourceRaisesIrq, SMTT(30)
<1>33. CASE SourceReceives
  BY <1>33, SeqTaken, SMTT(30) DEF SourceReceives
<1>34. CASE Elapse
  BY <1>34, SMTT(30) DEF Elapse, Timers
<1>35. CASE Reboot
  <2>1. /\ active_ams_' \in BOOLEAN /\ contract_timer_' \in BOOLEAN
        /\ wait_src_cap_' \in BOOLEAN /\ tried_soft_reset_' \in BOOLEAN
    BY <1>35, Zenon DEF Reboot
  <2>2. /\ state_' \in PdStates /\ prev_state_' \in PdStates
        /\ last_received_msg_id_' \in 0..7 \union {NO_MSG_ID} /\ msg_counter_' \in 0..255
        /\ get_src_cap_retry_count_' \in Nat /\ tx_fifo' \in Seq(SinkMessages)
    BY <1>35, SMTT(30) DEF Reboot
  <2>3. /\ requested_contract_' \in Contracts /\ accepted_contract_' \in Contracts
        /\ request_voltage_' \in 5..20 /\ expired' \subseteq Timers
    BY <1>35, VoltagesAssumption, ConstantTypes, Zenon DEF Reboot
  <2>. QED
    BY <2>1, <2>2, <2>3, Zenon
<1>36. CASE UNCHANGED vars
  BY <1>36, SMTT(30) DEF vars
<1>. HIDE DEF PdTypeOK, pdVars, stateVars, idVars, contractVars, capVars, PdStates, set_state_
<1>. QED
  BY <1>1, <1>2, <1>3, <1>4, <1>5, <1>6, <1>7, <1>8, <1>9, <1>10, <1>11, <1>12,
     <1>13, <1>14, <1>15, <1>16, <1>17, <1>18, <1>19, <1>20, <1>21, <1>22, <1>23,
     <1>24, <1>25, <1>26, <1>27, <1>28, <1>29, <1>30, <1>31, <1>32, <1>33, <1>34,
     <1>35, <1>36, SMTT(30)
  DEF Next, MainLoop, TriggerTask, ReaderTask, Environment

(* The driver's and the tasks' variables keep theirs; in particular the    *)
(* queue never holds more than QueueLength messages.                       *)
LEMMA DriverTypeStep == TypeOK /\ [Next]_vars => DriverTypeOK'
<1>. SUFFICES ASSUME PdTypeOK, DriverTypeOK, WorldTypeOK, [Next]_vars
              PROVE  DriverTypeOK'
  BY Zenon DEF TypeOK
<1>. USE DEF DriverTypeOK, Pcs, hwVars, taskVars, autoVars, publish
<1>1. CASE Setup
  <2>1. /\ startup_delay_' \in BOOLEAN /\ vbus_lost_' \in BOOLEAN /\ failed' \in BOOLEAN
        /\ isr' \in BOOLEAN /\ cc1_lvl_' \in BOOLEAN
    BY <1>1, Zenon DEF Setup, hwVars, taskVars
  <2>2. /\ hw_state_' \in {"UNATTACHED", "ATTACHED", "FAILED"}
        /\ cc_phase_' \in {"IDLE", "SETTLE_CC1", "SETTLE_CC2"} /\ pc' \in Pcs /\ deferred' \in Nat
        /\ reader' \in {"none", "crc", "reset", "wait", "status", "drain", "enqueue"}
        /\ trigger' \in {"none", "create", "receive", "soft_reset"}
    BY <1>1, SMTT(30) DEF Setup, hwVars, taskVars
  <2>3. rmsg' \in Messages /\ message_queue_' \in Seq(Messages) /\ Len(message_queue_') <= QueueLength
    BY <1>1, ConstantTypes, QueueLengthAssumption, Zenon DEF Setup, taskVars
  <2>. QED
    BY <1>1, <2>1, <2>2, <2>3, Zenon DEF Setup, autoVars
<1>2. CASE RunDeferred
  BY <1>2, SMTT(30) DEF RunDeferred, FiredTriggers, on_power_ready
<1>3. CASE RequestVoltage
  BY <1>3, SMTT(30) DEF RequestVoltage
<1>4. CASE LoopStart
  <2>1. /\ startup_delay_' \in BOOLEAN /\ vbus_lost_' \in BOOLEAN /\ failed' \in BOOLEAN
        /\ isr' \in BOOLEAN /\ cc1_lvl_' \in BOOLEAN
    BY <1>4, Zenon DEF LoopStart, hwVars, taskVars
  <2>2. /\ hw_state_' \in {"UNATTACHED", "ATTACHED", "FAILED"}
        /\ cc_phase_' \in {"IDLE", "SETTLE_CC1", "SETTLE_CC2"} /\ pc' \in Pcs /\ deferred' \in Nat
        /\ reader' \in {"none", "crc", "reset", "wait", "status", "drain", "enqueue"}
        /\ trigger' \in {"none", "create", "receive", "soft_reset"}
    BY <1>4, Zenon DEF LoopStart, hwVars, taskVars
  <2>3. rmsg' \in Messages /\ message_queue_' \in Seq(Messages) /\ Len(message_queue_') <= QueueLength
    BY <1>4, ConstantTypes, QueueLengthAssumption, Zenon DEF LoopStart, taskVars
  <2>. QED
    BY <1>4, <2>1, <2>2, <2>3, Zenon DEF LoopStart, autoVars
<1>5. CASE LoopDetachReset
  BY <1>5, SMTT(30) DEF LoopDetachReset, fusb_reset_
<1>6. CASE LoopDetachState
  BY <1>6, SMTT(30) DEF LoopDetachState
<1>7. CASE LoopCcIdle
  BY <1>7, SMTT(30) DEF LoopCcIdle
<1>8. CASE LoopCcSettle1
  BY <1>8, SMTT(30) DEF LoopCcSettle1, BcLvl
<1>9. CASE LoopCcSettle2
  BY <1>9, SMTT(30) DEF LoopCcSettle2
<1>10. CASE LoopSpawn
  <2>1. /\ startup_delay_' \in BOOLEAN /\ vbus_lost_' \in BOOLEAN /\ failed' \in BOOLEAN
        /\ isr' \in BOOLEAN /\ cc1_lvl_' \in BOOLEAN
    BY <1>10, Zenon DEF LoopSpawn, hwVars, taskVars
  <2>2. /\ hw_state_' \in {"UNATTACHED", "ATTACHED", "FAILED"}
        /\ cc_phase_' \in {"IDLE", "SETTLE_CC1", "SETTLE_CC2"} /\ pc' \in Pcs /\ deferred' \in Nat
        /\ reader' \in {"none", "crc", "reset", "wait", "status", "drain", "enqueue"}
        /\ trigger' \in {"none", "create", "receive", "soft_reset"}
    BY <1>10, SMTT(30) DEF LoopSpawn, hwVars, taskVars
  <2>3. rmsg' \in Messages /\ message_queue_' \in Seq(Messages) /\ Len(message_queue_') <= QueueLength
    BY <1>10, ConstantTypes, QueueLengthAssumption, Zenon DEF LoopSpawn, taskVars
  <2>. QED
    BY <1>10, <2>1, <2>2, <2>3, Zenon DEF LoopSpawn, autoVars
<1>11. CASE LoopReattachCrc
  BY <1>11, SMTT(30) DEF LoopReattachCrc, enable_auto_crc
<1>12. CASE LoopReattachReset
  BY <1>12, SMTT(30) DEF LoopReattachReset, fusb_reset_
<1>13. CASE LoopArm
  BY <1>13, SMTT(30) DEF LoopArm
<1>14. CASE LoopAttached
  BY <1>14, SMTT(30) DEF LoopAttached
<1>15. CASE LoopSoftReset
  BY <1>15, SMTT(30) DEF LoopSoftReset, fusb_reset_
<1>16. CASE LoopSend
  BY <1>16, SMTT(30) DEF LoopSend
<1>17. CASE LoopPdTimeout
  BY <1>17, SMTT(30) DEF LoopPdTimeout
<1>18. CASE LoopTimer
  BY <1>18, SMTT(30) DEF LoopTimer
<1>19. CASE TriggerCreate
  <2>1. /\ startup_delay_' \in BOOLEAN /\ vbus_lost_' \in BOOLEAN /\ failed' \in BOOLEAN
        /\ isr' \in BOOLEAN /\ cc1_lvl_' \in BOOLEAN
    BY <1>19, Zenon DEF TriggerCreate, hwVars, taskVars
  <2>2. /\ hw_state_' \in {"UNATTACHED", "ATTACHED", "FAILED"}
        /\ cc_phase_' \in {"IDLE", "SETTLE_CC1", "SETTLE_CC2"} /\ pc' \in Pcs /\ deferred' \in Nat
        /\ reader' \in {"none", "crc", "reset", "wait", "status", "drain", "enqueue"}
        /\ trigger' \in {"none", "create", "receive", "soft_reset"}
    BY <1>19, SMTT(30) DEF TriggerCreate, hwVars, taskVars
  <2>3. rmsg' \in Messages /\ message_queue_' \in Seq(Messages) /\ Len(message_queue_') <= QueueLength
    BY <1>19, ConstantTypes, QueueLengthAssumption, Zenon DEF TriggerCreate, taskVars
  <2>. QED
    BY <1>19, <2>1, <2>2, <2>3, Zenon DEF TriggerCreate, autoVars
<1>20. CASE TriggerReceive
  <2>1. message_queue_' \in Seq(Messages) /\ Len(message_queue_') <= QueueLength
    BY <1>20, SeqTaken, QueueLengthAssumption, SMTT(30) DEF TriggerReceive
  <2>. QED
    BY <1>20, <2>1, SMTT(30) DEF TriggerReceive
<1>21. CASE TriggerSoftReset
  BY <1>21, SMTT(30) DEF TriggerSoftReset
<1>22. CASE ReaderCrc
  BY <1>22, SMTT(30) DEF ReaderCrc, enable_auto_crc
<1>23. CASE ReaderReset
  BY <1>23, SMTT(30) DEF ReaderReset, fusb_reset_
<1>24. CASE ReaderWake
  BY <1>24, SMTT(30) DEF ReaderWake
<1>25. CASE ReaderStatus
  <2>1. /\ startup_delay_' \in BOOLEAN /\ vbus_lost_' \in BOOLEAN /\ failed' \in BOOLEAN
        /\ isr' \in BOOLEAN /\ cc1_lvl_' \in BOOLEAN
    BY <1>25, Zenon DEF ReaderStatus, hwVars, taskVars
  <2>2. /\ hw_state_' \in {"UNATTACHED", "ATTACHED", "FAILED"}
        /\ cc_phase_' \in {"IDLE", "SETTLE_CC1", "SETTLE_CC2"} /\ pc' \in Pcs /\ deferred' \in Nat
        /\ reader' \in {"none", "crc", "reset", "wait", "status", "drain", "enqueue"}
        /\ trigger' \in {"none", "create", "receive", "soft_reset"}
    BY <1>25, SMTT(30) DEF ReaderStatus, hwVars, taskVars
  <2>3. rmsg' \in Messages /\ message_queue_' \in Seq(Messages) /\ Len(message_queue_') <= QueueLength
    BY <1>25, ConstantTypes, QueueLengthAssumption, Zenon DEF ReaderStatus, taskVars
  <2>. QED
    BY <1>25, <2>1, <2>2, <2>3, Zenon DEF ReaderStatus, autoVars
<1>26. CASE ReaderDrain
  BY <1>26, SeqTaken, SMTT(30) DEF ReaderDrain, WorldTypeOK
<1>27. CASE ReaderEnqueue
  <2>1. message_queue_' \in Seq(Messages) /\ Len(message_queue_') <= QueueLength
    BY <1>27, SeqAdded, QueueLengthAssumption, SMTT(30) DEF ReaderEnqueue
  <2>2. reader' = "drain" /\ rmsg' \in Messages
    BY <1>27, ConstantTypes, Zenon DEF ReaderEnqueue
  <2>3. UNCHANGED <<hwVars, vbus_lost_, pc, deferred, trigger, isr, autoVars>>
    BY <1>27, Zenon DEF ReaderEnqueue
  <2>. QED
    BY <2>1, <2>2, <2>3, SMTT(30)
<1>28. CASE Plug
  BY <1>28, SMTT(30) DEF Plug, CableMoves, RaiseIrq
<1>29. CASE Unplug
  BY <1>29, SMTT(30) DEF Unplug, CableMoves, RaiseIrq
<1>30. CASE TxLost
  BY <1>30, SMTT(30) DEF TxLost
<1>31. CASE SourceStep
  <2>1. UNCHANGED <<hwVars, vbus_lost_, pc, deferred, taskVars, autoVars>>
    BY <1>31, SourceRaisesIrq, Zenon
  <2>. QED
    BY <2>1, SMTT(30)
<1>32. CASE SourceExtra
  <2>1. UNCHANGED <<hwVars, vbus_lost_, pc, deferred, taskVars, autoVars>>
    BY <1>32, SourceRaisesIrq, Zenon
  <2>. QED
    BY <2>1, SMTT(30)
<1>33. CASE SourceReceives
  BY <1>33, SMTT(30) DEF SourceReceives
<1>34. CASE Elapse
  BY <1>34, SMTT(30) DEF Elapse
<1>35. CASE Reboot
  <2>1. /\ startup_delay_' \in BOOLEAN /\ vbus_lost_' \in BOOLEAN /\ failed' \in BOOLEAN
        /\ isr' \in BOOLEAN /\ cc1_lvl_' \in BOOLEAN
    BY <1>35, Zenon DEF Reboot, hwVars, taskVars
  <2>2. /\ hw_state_' \in {"UNATTACHED", "ATTACHED", "FAILED"}
        /\ cc_phase_' \in {"IDLE", "SETTLE_CC1", "SETTLE_CC2"} /\ pc' \in Pcs /\ deferred' \in Nat
        /\ reader' \in {"none", "crc", "reset", "wait", "status", "drain", "enqueue"}
        /\ trigger' \in {"none", "create", "receive", "soft_reset"}
    BY <1>35, Zenon DEF Reboot, hwVars, taskVars
  <2>3. rmsg' \in Messages /\ message_queue_' \in Seq(Messages) /\ Len(message_queue_') <= QueueLength
    BY <1>35, ConstantTypes, QueueLengthAssumption, SMTT(30) DEF Reboot, taskVars
  <2>. QED
    BY <1>35, <2>1, <2>2, <2>3, Zenon DEF Reboot, autoVars
<1>36. CASE UNCHANGED vars
  BY <1>36, SMTT(30) DEF vars
<1>. HIDE DEF DriverTypeOK, Pcs, hwVars, taskVars, autoVars, publish
<1>. QED
  BY <1>1, <1>2, <1>3, <1>4, <1>5, <1>6, <1>7, <1>8, <1>9, <1>10, <1>11, <1>12,
     <1>13, <1>14, <1>15, <1>16, <1>17, <1>18, <1>19, <1>20, <1>21, <1>22, <1>23,
     <1>24, <1>25, <1>26, <1>27, <1>28, <1>29, <1>30, <1>31, <1>32, <1>33, <1>34,
     <1>35, <1>36, SMTT(30)
  DEF Next, MainLoop, TriggerTask, ReaderTask, Environment

(* A message the source sends keeps the types of the chip and the source.  *)
LEMMA SourceSendsType ==
  ASSUME WorldTypeOK, NEW m \in Messages, NEW next \in SourceStates, SourceSends(m, next)
  PROVE  /\ rx_fifo' \in Seq(Messages) /\ irq' \subseteq {"GCRCSENT", "VBUSOK"}
         /\ auto_crc' \in BOOLEAN /\ notified' \in BOOLEAN /\ src' \in SourceStates
<1>1. rx_fifo' \in Seq(Messages)
  <2>1. <<m, m>> \in Seq(Messages)
    BY SMTT(30)
  <2>2. rx_fifo \in Seq(Messages)
    BY Zenon DEF WorldTypeOK
  <2>3. rx_fifo \o <<m, m>> \in Seq(Messages) /\ Append(rx_fifo, m) \in Seq(Messages)
    BY <2>1, <2>2, SeqJoined, SeqAdded, Zenon
  <2>. QED
    BY <2>3, Zenon DEF SourceSends
<1>2. irq' \subseteq {"GCRCSENT", "VBUSOK"}
  BY Zenon DEF SourceSends, RaiseIrq, WorldTypeOK
<1>3. auto_crc' \in BOOLEAN /\ notified' \in BOOLEAN
  BY Zenon DEF SourceSends, RaiseIrq, WorldTypeOK
<1>4. src' \in SourceStates
  <2>1. (m.id + 1) % 8 \in 0..7
    BY SMTT(30) DEF Messages
  <2>. QED
    BY <2>1, Zenon DEF SourceSends, SourceStates
<1>. QED
  BY <1>1, <1>2, <1>3, <1>4, Zenon

(* The source's states while it follows its protocol.                      *)
LEMMA SourceModeType ==
  ASSUME src \in SourceStates
  PROVE  /\ src.id \in 0..7 /\ src.caps \in Seq(Contracts)
         /\ \A mode \in SourceModes :
              /\ [src EXCEPT !.mode = mode] \in SourceStates
              /\ [src EXCEPT !.mode = mode, !.granted = src.req] \in SourceStates
              /\ [src EXCEPT !.mode = mode, !.last = NO_MSG_ID] \in SourceStates
BY Zenon DEF SourceStates

(* Its next message, and its state afterwards.                             *)
LEMMA SourceStepType ==
  ASSUME WorldTypeOK, SourceStep
  PROVE  WorldTypeOK'
<1>. src \in SourceStates
  BY Zenon DEF WorldTypeOK
<1>1. {"wait_req", "ps_rdy", "idle", "caps"} \subseteq SourceModes
  BY Zenon DEF SourceModes
<1>2. /\ {"SOURCE_CAP", "ACCEPT", "REJECT", "PS_RDY"} \subseteq MsgTypes /\ 0 \in 0..7
  BY SMTT(30) DEF MsgTypes
<1>3. \E m \in Messages, next \in SourceStates : SourceSends(m, next)
  <2>1. CASE SourceSends(Msg("SOURCE_CAP", src.id, src.caps), [src EXCEPT !.mode = "wait_req"])
    <3>1. Msg("SOURCE_CAP", src.id, src.caps) \in Messages
      BY <1>2, SourceModeType, MessageTypes, ZenonT(60)
    <3>2. [src EXCEPT !.mode = "wait_req"] \in SourceStates
      BY <1>1, SourceModeType, Zenon
    <3>. QED
      BY <2>1, <3>1, <3>2, Zenon
  <2>2. CASE SourceSends(CntrlMsg("ACCEPT", src.id), [src EXCEPT !.mode = "ps_rdy"])
    <3>1. CntrlMsg("ACCEPT", src.id) \in Messages
      BY <1>2, SourceModeType, MessageTypes, ZenonT(60)
    <3>2. [src EXCEPT !.mode = "ps_rdy"] \in SourceStates
      BY <1>1, SourceModeType, Zenon
    <3>. QED
      BY <2>2, <3>1, <3>2, Zenon
  <2>3. CASE SourceSends(CntrlMsg("REJECT", src.id), [src EXCEPT !.mode = "idle"])
    <3>1. CntrlMsg("REJECT", src.id) \in Messages
      BY <1>2, SourceModeType, MessageTypes, ZenonT(60)
    <3>2. [src EXCEPT !.mode = "idle"] \in SourceStates
      BY <1>1, SourceModeType, Zenon
    <3>. QED
      BY <2>3, <3>1, <3>2, Zenon
  <2>4. CASE SourceSends(CntrlMsg("PS_RDY", src.id),
                         [src EXCEPT !.mode = "idle", !.granted = src.req])
    <3>1. CntrlMsg("PS_RDY", src.id) \in Messages
      BY <1>2, SourceModeType, MessageTypes, ZenonT(60)
    <3>2. [src EXCEPT !.mode = "idle", !.granted = src.req] \in SourceStates
      BY <1>1, SourceModeType, Zenon
    <3>. QED
      BY <2>4, <3>1, <3>2, Zenon
  <2>5. CASE SourceSends(CntrlMsg("ACCEPT", 0), [src EXCEPT !.mode = "caps"])
    <3>1. CntrlMsg("ACCEPT", 0) \in Messages
      BY <1>2, MessageTypes, ZenonT(60)
    <3>2. [src EXCEPT !.mode = "caps"] \in SourceStates
      BY <1>1, SourceModeType, Zenon
    <3>. QED
      BY <2>5, <3>1, <3>2, Zenon
  <2>. QED
    BY <2>1, <2>2, <2>3, <2>4, <2>5, Zenon DEF SourceStep
<1>4. budget' = budget
  BY Zenon DEF SourceStep
<1>. QED
  BY <1>3, <1>4, SourceSendsType, Zenon DEF WorldTypeOK

(* The same of what an idle source sends on its own.                       *)
LEMMA SourceExtraType ==
  ASSUME WorldTypeOK, SourceExtra
  PROVE  WorldTypeOK'
<1>. src \in SourceStates
  BY Zenon DEF WorldTypeOK
<1>0. PICK type \in Unsolicited :
       CASE type = "SOFT_RESET" ->
              SourceSends(CntrlMsg(type, 0),
                          [src EXCEPT !.mode = "wait_accept", !.last = NO_MSG_ID])
         [] type = "SOURCE_CAP" ->
              SourceSends(Msg(type, src.id, src.caps), [src EXCEPT !.mode = "wait_req"])
         [] type = "VENDOR_DEFINED" ->
              SourceSends(Msg(type, src.id, <<NoContract>>), src)
         [] OTHER -> SourceSends(CntrlMsg(type, src.id), src)
  BY Zenon DEF SourceExtra
<1>1. /\ "wait_accept" \in SourceModes /\ "wait_req" \in SourceModes
      /\ type \in MsgTypes /\ 0 \in 0..7 /\ <<NoContract>> \in Seq(Contracts)
  BY UnsolicitedAssumption, ConstantTypes, SMTT(30) DEF SourceModes
<1>2. /\ src.id \in 0..7 /\ src.caps \in Seq(Contracts)
      /\ [src EXCEPT !.mode = "wait_accept", !.last = NO_MSG_ID] \in SourceStates
      /\ [src EXCEPT !.mode = "wait_req"] \in SourceStates
  BY <1>1, SourceModeType, Zenon
<1>3. /\ CntrlMsg(type, 0) \in Messages /\ CntrlMsg(type, src.id) \in Messages
      /\ Msg(type, src.id, src.caps) \in Messages /\ Msg(type, src.id, <<NoContract>>) \in Messages
  BY <1>1, <1>2, MessageTypes, Zenon
<1>4. \E m \in Messages, next \in SourceStates : SourceSends(m, next)
  BY <1>0, <1>2, <1>3, Zenon
<1>5. budget' \in [plug : Nat, reboot : Nat, extra : Nat, request : Nat]
  BY SMTT(30) DEF SourceExtra, WorldTypeOK
<1>. QED
  BY <1>4, <1>5, SourceSendsType, Zenon DEF WorldTypeOK

(* The source after a message of the sink.                                 *)
LEMMA SourceAfterType ==
  ASSUME src \in SourceStates, NEW m \in SinkMessages
  PROVE  SourceAfter(m) \subseteq SourceStates
<1>. DEFINE heard == [src EXCEPT !.last = m.id]
<1>1. heard \in SourceStates
  BY Zenon DEF SourceStates, SinkMessages, Messages
<1>. HIDE DEF heard
<1>2. \A mode \in SourceModes : [heard EXCEPT !.mode = mode] \in SourceStates
  BY <1>1, Zenon DEF SourceStates
<1>3. [heard EXCEPT !.surprised = TRUE] \in SourceStates
  BY <1>1, Zenon DEF SourceStates
<1>4. ASSUME m.type = "REQUEST"
      PROVE  \A mode \in SourceModes : [heard EXCEPT !.mode = mode, !.req = m.objs[1]] \in SourceStates
  <2>1. m.objs \in Seq(Contracts) /\ m.objs # <<>>
    BY <1>4, Zenon DEF SinkMessages, Messages
  <2>2. m.objs[1] \in Contracts
    BY <2>1, SMTT(30)
  <2>. QED
    BY <1>1, <2>2, Zenon DEF SourceStates
<1>5. /\ {"reset", "accept", "reject", "caps"} \subseteq SourceModes
  BY Zenon DEF SourceModes
<1>6. CASE m.type = "SOFT_RESET"
  BY <1>2, <1>5, <1>6, Zenon DEF SourceAfter, heard
<1>7. CASE m.type # "SOFT_RESET" /\ m.id = src.last
  BY <1>7, Zenon DEF SourceAfter
<1>8. CASE m.type = "REQUEST" /\ m.id # src.last
  <2>1. CASE src.mode = "wait_req"
    <3>1. SourceAfter(m) =
            {[heard EXCEPT !.mode = mode, !.req = m.objs[1]] :
               mode \in {"accept"} \union (IF "reject" \in Faults THEN {"reject"} ELSE {})}
      BY <1>8, <2>1, Zenon DEF SourceAfter, heard
    <3>. QED
      BY <1>4, <1>5, <1>8, <3>1, Zenon
  <2>2. CASE src.mode # "wait_req"
    BY <1>3, <1>8, <2>2, Zenon DEF SourceAfter, heard
  <2>. QED
    BY <2>1, <2>2, Zenon
<1>9. CASE m.type = "ACCEPT" /\ m.id # src.last
  BY <1>1, <1>2, <1>5, <1>9, ZenonT(60) DEF SourceAfter, heard
<1>10. CASE m.type = "GET_SOURCE_CAP" /\ m.id # src.last
  BY <1>2, <1>5, <1>10, ZenonT(60) DEF SourceAfter, heard
<1>11. CASE /\ m.type \notin {"SOFT_RESET", "REQUEST", "ACCEPT", "GET_SOURCE_CAP"}
            /\ m.id # src.last
  BY <1>1, <1>11, ZenonT(60) DEF SourceAfter, heard
<1>. QED
  BY <1>6, <1>7, <1>8, <1>9, <1>10, <1>11, Zenon

(* The chip and the source keep their types.                               *)
LEMMA WorldTypeStep == TypeOK /\ [Next]_vars => WorldTypeOK'
<1>. SUFFICES ASSUME PdTypeOK, DriverTypeOK, WorldTypeOK, [Next]_vars
              PROVE  WorldTypeOK'
  BY Zenon DEF TypeOK
<1>. USE DEF WorldTypeOK, chipVars
<1>1. CASE Setup
  <2>1. /\ rx_fifo' = rx_fifo \/ rx_fifo' = <<>>
        /\ irq' = irq \/ irq' = {}
        /\ auto_crc' = auto_crc \/ auto_crc' = FALSE
        /\ UNCHANGED <<notified, src, budget>>
    BY <1>1, Zenon DEF Setup
  <2>2. rx_fifo' \in Seq(Messages)
    <3>1. rx_fifo \in Seq(Messages) /\ <<>> \in Seq(Messages)
      BY SMTT(30)
    <3>. QED
      BY <2>1, <3>1, Zenon
  <2>3. auto_crc' \in BOOLEAN
    BY <2>1, Zenon
  <2>. QED
    BY <2>1, <2>2, <2>3, Zenon
<1>2. CASE RunDeferred
  BY <1>2, Zenon DEF RunDeferred
<1>3. CASE RequestVoltage
  BY <1>3, SMTT(30) DEF RequestVoltage
<1>4. CASE LoopStart
  BY <1>4, Zenon DEF LoopStart
<1>5. CASE LoopDetachReset
  BY <1>5, ResetType, SMTT(30) DEF LoopDetachReset
<1>6. CASE LoopDetachState
  BY <1>6, Zenon DEF LoopDetachState
<1>7. CASE LoopCcIdle
  BY <1>7, Zenon DEF LoopCcIdle
<1>8. CASE LoopCcSettle1
  BY <1>8, Zenon DEF LoopCcSettle1
<1>9. CASE LoopCcSettle2
  BY <1>9, Zenon DEF LoopCcSettle2
<1>10. CASE LoopSpawn
  BY <1>10, Zenon DEF LoopSpawn
<1>11. CASE LoopReattachCrc
  BY <1>11, Zenon DEF LoopReattachCrc, enable_auto_crc
<1>12. CASE LoopReattachReset
  BY <1>12, ResetType, Zenon DEF LoopReattachReset
<1>13. CASE LoopArm
  BY <1>13, Zenon DEF LoopArm
<1>14. CASE LoopAttached
  BY <1>14, Zenon DEF LoopAttached
<1>15. CASE LoopSoftReset
  BY <1>15, ResetType, Zenon DEF LoopSoftReset
<1>16. CASE LoopSend
  BY <1>16, Zenon DEF LoopSend
<1>17. CASE LoopPdTimeout
  BY <1>17, Zenon DEF LoopPdTimeout
<1>18. CASE LoopTimer
  BY <1>18, Zenon DEF LoopTimer
<1>19. CASE TriggerCreate
  BY <1>19, Zenon DEF TriggerCreate
<1>20. CASE TriggerReceive
  BY <1>20, Zenon DEF TriggerReceive
<1>21. CASE TriggerSoftReset
  BY <1>21, Zenon DEF TriggerSoftReset
<1>22. CASE ReaderCrc
  BY <1>22, Zenon DEF ReaderCrc, enable_auto_crc
<1>23. CASE ReaderReset
  BY <1>23, ResetType, Zenon DEF ReaderReset
<1>24. CASE ReaderWake
  BY <1>24, Zenon DEF ReaderWake
<1>25. CASE ReaderStatus
  BY <1>25, Zenon DEF ReaderStatus
<1>26. CASE ReaderDrain
  <2>1. rx_fifo' = rx_fifo \/ (rx_fifo # <<>> /\ rx_fifo' = Tail(rx_fifo))
    BY <1>26, Zenon DEF ReaderDrain
  <2>2. rx_fifo' \in Seq(Messages)
    <3>1. rx_fifo \in Seq(Messages) /\ (rx_fifo # <<>> => Tail(rx_fifo) \in Seq(Messages))
      BY SeqTaken, Zenon
    <3>. QED
      BY <2>1, <3>1, Zenon
  <2>. QED
    BY <1>26, <2>2, Zenon DEF ReaderDrain
<1>27. CASE ReaderEnqueue
  BY <1>27, Zenon DEF ReaderEnqueue
<1>28. CASE Plug
  BY <1>28, ConstantTypes, SMTT(30) DEF Plug, CableMoves, RaiseIrq
<1>29. CASE Unplug
  BY <1>29, ConstantTypes, Zenon DEF Unplug, CableMoves, RaiseIrq
<1>30. CASE TxLost
  BY <1>30, Zenon DEF TxLost
<1>31. CASE SourceStep
  BY <1>31, SourceStepType, Zenon
<1>32. CASE SourceExtra
  BY <1>32, SourceExtraType, Zenon
<1>33. CASE SourceReceives
  <2>1. Head(tx_fifo) \in SinkMessages /\ "GOODCRC" \in MsgTypes
    BY <1>33, SeqTaken, Zenon DEF SourceReceives, PdTypeOK, MsgTypes
  <2>2. Head(tx_fifo).id \in 0..7
    BY <2>1, Zenon DEF SinkMessages, Messages
  <2>3. CntrlMsg("GOODCRC", Head(tx_fifo).id) \in Messages
    BY <2>1, <2>2, MessageTypes, ZenonT(60)
  <2>4. rx_fifo' \in Seq(Messages)
    BY <1>33, <2>3, SeqAdded, Zenon DEF SourceReceives
  <2>5. src' \in SourceStates
    BY <1>33, <2>1, SourceAfterType, Zenon DEF SourceReceives
  <2>. QED
    BY <1>33, <2>4, <2>5, Zenon DEF SourceReceives
<1>34. CASE Elapse
  BY <1>34, Zenon DEF Elapse
<1>35. CASE Reboot
  <2>1. notified' \in BOOLEAN
    BY <1>35, Zenon DEF Reboot
  <2>2. budget' \in [plug : Nat, reboot : Nat, extra : Nat, request : Nat]
    BY <1>35, SMTT(30) DEF Reboot
  <2>3. UNCHANGED <<rx_fifo, irq, auto_crc, src>>
    BY <1>35, Zenon DEF Reboot
  <2>. QED
    BY <2>1, <2>2, <2>3, Zenon
<1>36. CASE UNCHANGED vars
  BY <1>36, Zenon DEF vars
<1>. HIDE DEF WorldTypeOK, chipVars
<1>. QED
  BY <1>1, <1>2, <1>3, <1>4, <1>5, <1>6, <1>7, <1>8, <1>9, <1>10, <1>11, <1>12,
     <1>13, <1>14, <1>15, <1>16, <1>17, <1>18, <1>19, <1>20, <1>21, <1>22, <1>23,
     <1>24, <1>25, <1>26, <1>27, <1>28, <1>29, <1>30, <1>31, <1>32, <1>33, <1>34,
     <1>35, <1>36, SMTT(30)
  DEF Next, MainLoop, TriggerTask, ReaderTask, Environment

-----------------------------------------------------------------------------
(* The RX FIFO.                                                            *)

(* Taking the first message out, emptying the FIFO or adding a GOODCRC     *)
(* leaves no new message unread.                                           *)
LEMMA UnreadFacts ==
  ASSUME rx_fifo \in Seq(Messages)
  PROVE  /\ rx_fifo' = rx_fifo /\ Unread' => Unread
         /\ rx_fifo' = <<>> => ~Unread'
         /\ rx_fifo # <<>> /\ rx_fifo' = Tail(rx_fifo) /\ Unread' => Unread
         /\ \A id \in 0..7 : rx_fifo' = Append(rx_fifo, CntrlMsg("GOODCRC", id)) /\ Unread' => Unread
<1>1. rx_fifo' = rx_fifo /\ Unread' => Unread
  BY Zenon DEF Unread
<1>2. rx_fifo' = <<>> => ~Unread'
  BY SMTT(30) DEF Unread
<1>3. ASSUME rx_fifo # <<>>, rx_fifo' = Tail(rx_fifo), Unread'
      PROVE  Unread
  <2>1. PICK i \in 1..Len(rx_fifo') : rx_fifo'[i].type # "GOODCRC"
    BY <1>3, Zenon DEF Unread
  <2>2. i + 1 \in 1..Len(rx_fifo) /\ rx_fifo'[i] = rx_fifo[i + 1]
    BY <1>3, SMTT(30)
  <2>. QED
    BY <2>1, <2>2, Zenon DEF Unread
<1>4. ASSUME NEW id \in 0..7, rx_fifo' = Append(rx_fifo, CntrlMsg("GOODCRC", id)), Unread'
      PROVE  Unread
  <2>0. CntrlMsg("GOODCRC", id) \in Messages /\ CntrlMsg("GOODCRC", id).type = "GOODCRC"
    BY MessageTypes, Zenon DEF CntrlMsg, Msg, MsgTypes
  <2>. DEFINE m == CntrlMsg("GOODCRC", id)
  <2>. HIDE DEF m
  <2>1. PICK i \in 1..Len(rx_fifo') : rx_fifo'[i].type # "GOODCRC"
    BY <1>4, Zenon DEF Unread
  <2>2. rx_fifo' = Append(rx_fifo, m) /\ m \in Messages /\ m.type = "GOODCRC"
    BY <1>4, <2>0, Zenon DEF m
  <2>3. /\ Len(rx_fifo') = Len(rx_fifo) + 1
        /\ rx_fifo'[Len(rx_fifo) + 1] = m
        /\ \A k \in 1..Len(rx_fifo) : rx_fifo'[k] = rx_fifo[k]
    BY <2>2, SeqAdded, SMTT(30)
  <2>4. Len(rx_fifo) \in Nat
    BY SMTT(30)
  <2>5. i \in 1..Len(rx_fifo) \/ i = Len(rx_fifo) + 1
    BY <2>3, <2>4, SMTT(30)
  <2>. QED
    BY <2>1, <2>2, <2>3, <2>5, Zenon DEF Unread
<1>. QED
  BY <1>1, <1>2, <1>3, <1>4, Zenon

(* Before the ISR exists; and a message is announced to the reader.        *)
Early == Measuring \/ Spawning

Announced == "GCRCSENT" \in irq \/ reader \in {"drain", "enqueue"}

(* Early, by the variables it depends on, before and after a step.         *)
LEMMA EarlyPhase ==
  /\ PhaseInv => (Early <=> reader = "none" /\ ~failed /\ pc # "setup")
  /\ PhaseInv' => (Early' <=> reader' = "none" /\ ~failed' /\ pc' # "setup")
<1>. USE DEF PhaseInv, Early, Starting, Measuring, Spawning, Running, Stopped, LaterPcs
<1>1. PhaseInv => (Early <=> reader = "none" /\ ~failed /\ pc # "setup")
  BY Zenon
<1>2. PhaseInv' => (Early' <=> reader' = "none" /\ ~failed' /\ pc' # "setup")
  BY Zenon
<1>. QED
  BY <1>1, <1>2, Zenon

(* A step strands nothing that adds no unread message, keeps what announces*)
(* one, and does not go back to where there is no ISR.                     *)
LEMMA FifoKept ==
  ASSUME FifoInv, Unread' => Unread, isr' => isr \/ Early, Announced /\ Unread' => Announced',
         Early' => Early \/ ~Unread'
  PROVE  FifoInv'
BY Zenon DEF FifoInv, NoStrandedMessage, Early, Announced

(* No message is stranded in the RX FIFO: the interrupt that announces it  *)
(* is latched before it is there and cleared only when the reader goes on  *)
(* to drain the FIFO.                                                      *)
LEMMA FifoInvStep ==
  TypeOK /\ PhaseInv /\ PhaseInv' /\ FifoInv /\ [Next]_vars => FifoInv'
<1>. SUFFICES ASSUME TypeOK, PhaseInv, PhaseInv', FifoInv, [Next]_vars
              PROVE  FifoInv'
  BY Zenon
<1>0. /\ rx_fifo' = rx_fifo /\ Unread' => Unread
      /\ rx_fifo' = <<>> => ~Unread'
      /\ rx_fifo # <<>> /\ rx_fifo' = Tail(rx_fifo) /\ Unread' => Unread
      /\ \A id \in 0..7 : rx_fifo' = Append(rx_fifo, CntrlMsg("GOODCRC", id)) /\ Unread' => Unread
  BY UnreadFacts, ZenonT(60) DEF TypeOK, WorldTypeOK
<1>early. /\ Early <=> reader = "none" /\ ~failed /\ pc # "setup"
          /\ Early' <=> reader' = "none" /\ ~failed' /\ pc' # "setup"
  BY EarlyPhase, Zenon
<1>1. CASE Setup
  BY <1>1, <1>0, Zenon DEF Setup, FifoInv, NoStrandedMessage, PhaseInv, Starting,
      Measuring, Spawning, Running, Stopped, hwVars, taskVars, chipVars
<1>2. CASE RunDeferred
  BY <1>2, <1>0, Zenon DEF RunDeferred, FifoInv, NoStrandedMessage, PhaseInv, Starting,
      Measuring, Spawning, Running, Stopped, hwVars, taskVars, chipVars
<1>3. CASE RequestVoltage
  <2>1. UNCHANGED <<rx_fifo, irq, reader, isr>>
    BY <1>3, Zenon DEF RequestVoltage, hwVars, taskVars, chipVars
  <2>2. Early' => Early
    BY <1>3, <1>early, SMTT(30) DEF RequestVoltage, hwVars, taskVars, chipVars
  <2>. QED
    BY <2>1, <2>2, <1>0, FifoKept, Zenon DEF Announced
<1>4. CASE LoopStart
  <2>1. UNCHANGED <<rx_fifo, irq, reader, isr>>
    BY <1>4, Zenon DEF LoopStart, hwVars, taskVars, chipVars
  <2>2. Early' => Early
    BY <1>4, <1>early, Zenon DEF LoopStart, hwVars, taskVars, chipVars
  <2>. QED
    BY <2>1, <2>2, <1>0, FifoKept, Zenon DEF Announced
<1>5. CASE LoopDetachReset
  <2>1. rx_fifo' \in {rx_fifo, <<>>} /\ UNCHANGED <<irq, reader, isr>>
    BY <1>5, Zenon DEF LoopDetachReset, fusb_reset_, hwVars, taskVars, chipVars
  <2>2. Early' => Early
    BY <1>5, <1>early, Zenon DEF LoopDetachReset, fusb_reset_, hwVars, taskVars, chipVars
  <2>. QED
    BY <2>1, <2>2, <1>0, FifoKept, Zenon DEF Announced
<1>6. CASE LoopDetachState
  <2>1. UNCHANGED <<rx_fifo, irq, reader, isr>>
    BY <1>6, Zenon DEF LoopDetachState, hwVars, taskVars, chipVars
  <2>2. Early' => Early
    BY <1>6, <1>early, SMTT(30) DEF LoopDetachState, hwVars, taskVars, chipVars
  <2>. QED
    BY <2>1, <2>2, <1>0, FifoKept, Zenon DEF Announced
<1>7. CASE LoopCcIdle
  <2>1. UNCHANGED <<rx_fifo, irq, reader, isr>>
    BY <1>7, Zenon DEF LoopCcIdle, hwVars, taskVars, chipVars
  <2>2. Early' => Early
    BY <1>7, <1>early, Zenon DEF LoopCcIdle, hwVars, taskVars, chipVars
  <2>. QED
    BY <2>1, <2>2, <1>0, FifoKept, Zenon DEF Announced
<1>8. CASE LoopCcSettle1
  <2>1. UNCHANGED <<rx_fifo, irq, reader, isr>>
    BY <1>8, Zenon DEF LoopCcSettle1, hwVars, taskVars, chipVars
  <2>2. Early' => Early
    BY <1>8, <1>early, SMTT(30) DEF LoopCcSettle1, hwVars, taskVars, chipVars
  <2>. QED
    BY <2>1, <2>2, <1>0, FifoKept, Zenon DEF Announced
<1>9. CASE LoopCcSettle2
  <2>1. UNCHANGED <<rx_fifo, irq, reader, isr>>
    BY <1>9, Zenon DEF LoopCcSettle2, hwVars, taskVars, chipVars
  <2>2. Early' => Early
    BY <1>9, <1>early, SMTT(30) DEF LoopCcSettle2, hwVars, taskVars, chipVars
  <2>. QED
    BY <2>1, <2>2, <1>0, FifoKept, Zenon DEF Announced
<1>10. CASE LoopSpawn
  <2>1. UNCHANGED <<rx_fifo, irq, reader, isr>>
    BY <1>10, Zenon DEF LoopSpawn, chipVars
  <2>2. pc = "spawn" /\ (failed => failed')
    BY <1>10, SMTT(30) DEF LoopSpawn
  <2>3. Early' => Early
    BY <2>1, <2>2, <1>early, Zenon
  <2>. QED
    BY <2>1, <2>3, <1>0, FifoKept, Zenon DEF Announced
<1>11. CASE LoopReattachCrc
  <2>1. UNCHANGED <<rx_fifo, irq, reader, isr>>
    BY <1>11, Zenon DEF LoopReattachCrc, enable_auto_crc, hwVars, taskVars, chipVars
  <2>2. Early' => Early
    BY <1>11, <1>early, SMTT(30) DEF LoopReattachCrc, enable_auto_crc, hwVars, taskVars, chipVars
  <2>. QED
    BY <2>1, <2>2, <1>0, FifoKept, Zenon DEF Announced
<1>12. CASE LoopReattachReset
  <2>1. rx_fifo' \in {rx_fifo, <<>>} /\ UNCHANGED <<irq, reader, isr>>
    BY <1>12, Zenon DEF LoopReattachReset, fusb_reset_, hwVars, taskVars, chipVars
  <2>2. Early' => Early
    BY <1>12, <1>early, SMTT(30) DEF LoopReattachReset, fusb_reset_, hwVars, taskVars, chipVars
  <2>. QED
    BY <2>1, <2>2, <1>0, FifoKept, Zenon DEF Announced
<1>13. CASE LoopArm
  <2>1. UNCHANGED <<rx_fifo, irq, reader, isr>>
    BY <1>13, Zenon DEF LoopArm, hwVars, taskVars, chipVars
  <2>2. Early' => Early
    BY <1>13, <1>early, SMTT(30) DEF LoopArm, hwVars, taskVars, chipVars
  <2>. QED
    BY <2>1, <2>2, <1>0, FifoKept, Zenon DEF Announced
<1>14. CASE LoopAttached
  <2>1. UNCHANGED <<rx_fifo, irq, reader, isr>>
    BY <1>14, Zenon DEF LoopAttached, hwVars, taskVars, chipVars
  <2>2. Early' => Early
    BY <1>14, <1>early, SMTT(30) DEF LoopAttached, hwVars, taskVars, chipVars
  <2>. QED
    BY <2>1, <2>2, <1>0, FifoKept, Zenon DEF Announced
<1>15. CASE LoopSoftReset
  <2>1. rx_fifo' \in {rx_fifo, <<>>} /\ UNCHANGED <<irq, reader, isr>>
    BY <1>15, Zenon DEF LoopSoftReset, fusb_reset_, hwVars, taskVars, chipVars
  <2>2. Early' => Early
    BY <1>15, <1>early, SMTT(30) DEF LoopSoftReset, fusb_reset_, hwVars, taskVars, chipVars
  <2>. QED
    BY <2>1, <2>2, <1>0, FifoKept, Zenon DEF Announced
<1>16. CASE LoopSend
  <2>1. UNCHANGED <<rx_fifo, irq, reader, isr>>
    BY <1>16, Zenon DEF LoopSend, hwVars, taskVars, chipVars
  <2>2. Early' => Early
    BY <1>16, <1>early, SMTT(30) DEF LoopSend, hwVars, taskVars, chipVars
  <2>. QED
    BY <2>1, <2>2, <1>0, FifoKept, Zenon DEF Announced
<1>17. CASE LoopPdTimeout
  <2>1. UNCHANGED <<rx_fifo, irq, reader, isr>>
    BY <1>17, Zenon DEF LoopPdTimeout, hwVars, taskVars, chipVars
  <2>2. Early' => Early
    BY <1>17, <1>early, SMTT(30) DEF LoopPdTimeout, hwVars, taskVars, chipVars
  <2>. QED
    BY <2>1, <2>2, <1>0, FifoKept, Zenon DEF Announced
<1>18. CASE LoopTimer
  <2>1. UNCHANGED <<rx_fifo, irq, reader, isr>>
    BY <1>18, Zenon DEF LoopTimer, hwVars, taskVars, chipVars
  <2>2. Early' => Early
    BY <1>18, <1>early, Zenon DEF LoopTimer, hwVars, taskVars, chipVars
  <2>. QED
    BY <2>1, <2>2, <1>0, FifoKept, Zenon DEF Announced
<1>19. CASE TriggerCreate
  <2>0. Early /\ reader = "none"
    BY <1>19, Zenon DEF TriggerCreate, Early, PhaseInv, Starting, Measuring, Running, Stopped, Spawning
  <2>1. UNCHANGED <<rx_fifo, irq>> /\ reader \notin {"drain", "enqueue"}
    BY <1>19, <2>0, Zenon DEF TriggerCreate, chipVars
  <2>2. reader' = "crc" \/ failed'
    BY <1>19, Zenon DEF TriggerCreate
  <2>3. ~Early'
    BY <2>2, <1>early, Zenon
  <2>. QED
    BY <2>0, <2>1, <2>3, <1>0, FifoKept, Zenon DEF Announced
<1>20. CASE TriggerReceive
  <2>1. UNCHANGED <<rx_fifo, irq, reader, isr>>
    BY <1>20, HandlersKeepPhase, Zenon DEF chipVars
  <2>2. ~Early'
    BY <1>20, HandlersKeepPhase, Zenon DEF Early, Measuring, Spawning
  <2>. QED
    BY <2>1, <2>2, <1>0, FifoKept, Zenon DEF Announced
<1>21. CASE TriggerSoftReset
  <2>1. UNCHANGED <<rx_fifo, irq, reader, isr>>
    BY <1>21, HandlersKeepPhase, Zenon DEF chipVars
  <2>2. ~Early'
    BY <1>21, HandlersKeepPhase, Zenon DEF Early, Measuring, Spawning
  <2>. QED
    BY <2>1, <2>2, <1>0, FifoKept, Zenon DEF Announced
<1>22. CASE ReaderCrc
  <2>1. (rx_fifo' = rx_fifo \/ rx_fifo' = <<>>) /\ UNCHANGED <<irq, isr>> /\ reader \notin {"drain", "enqueue"}
    BY <1>22, Zenon DEF ReaderCrc, enable_auto_crc, hwVars, taskVars, chipVars
  <2>2. ~Early'
    BY <1>22, Zenon DEF ReaderCrc, enable_auto_crc, Early, Measuring, Spawning
  <2>. QED
    BY <2>1, <2>2, <1>0, FifoKept, Zenon DEF Announced
<1>23. CASE ReaderReset
  <2>1. (rx_fifo' = rx_fifo \/ rx_fifo' = <<>>) /\ UNCHANGED <<irq, isr>> /\ reader \notin {"drain", "enqueue"}
    BY <1>23, Zenon DEF ReaderReset, fusb_reset_, hwVars, taskVars, chipVars
  <2>2. ~Early'
    BY <1>23, Zenon DEF ReaderReset, fusb_reset_, Early, Measuring, Spawning
  <2>. QED
    BY <2>1, <2>2, <1>0, FifoKept, Zenon DEF Announced
<1>24. CASE ReaderWake
  <2>1. (rx_fifo' = rx_fifo \/ rx_fifo' = <<>>) /\ UNCHANGED <<irq, isr>> /\ reader \notin {"drain", "enqueue"}
    BY <1>24, Zenon DEF ReaderWake, hwVars, taskVars, chipVars
  <2>2. ~Early'
    BY <1>24, Zenon DEF ReaderWake, Early, Measuring, Spawning
  <2>. QED
    BY <2>1, <2>2, <1>0, FifoKept, Zenon DEF Announced
<1>25. CASE ReaderStatus
  <2>1. UNCHANGED <<rx_fifo, isr>> /\ (Announced => Announced')
    BY <1>25, Zenon DEF ReaderStatus, Announced
  <2>2. ~Early'
    BY <1>25, Zenon DEF ReaderStatus, Early, Measuring, Spawning
  <2>. QED
    BY <2>1, <2>2, <1>0, FifoKept, Zenon
<1>26. CASE ReaderDrain
  <2>1. /\ UNCHANGED <<irq, isr>>
        /\ \/ rx_fifo' = <<>>
           \/ /\ rx_fifo # <<>> /\ rx_fifo' = Tail(rx_fifo)
              /\ reader' \in {"drain", "enqueue"}
    BY <1>26, Zenon DEF ReaderDrain
  <2>2. reader' \in {"wait", "drain", "enqueue"}
    BY <1>26, Zenon DEF ReaderDrain
  <2>3. ~Early'
    BY <2>2, <1>early, Zenon
  <2>. QED
    BY <2>1, <2>3, <1>0, FifoKept, Zenon DEF Announced
<1>27. CASE ReaderEnqueue
  <2>1. UNCHANGED <<rx_fifo, irq, isr>> /\ reader' = "drain"
    BY <1>27, Zenon DEF ReaderEnqueue, chipVars
  <2>2. ~Early'
    BY <2>1, Zenon DEF Early, Measuring, Spawning
  <2>. QED
    BY <2>1, <2>2, <1>0, FifoKept, Zenon DEF Announced
<1>28. CASE Plug
  <2>1. UNCHANGED <<rx_fifo, reader, isr>> /\ (Announced => Announced')
    BY <1>28, Zenon DEF Plug, CableMoves, RaiseIrq, Announced, taskVars
  <2>2. Early' => Early
    BY <1>28, <1>early, Zenon DEF Plug, CableMoves, RaiseIrq, hwVars, taskVars
  <2>. QED
    BY <2>1, <2>2, <1>0, FifoKept, Zenon
<1>29. CASE Unplug
  <2>1. UNCHANGED <<rx_fifo, reader, isr>> /\ (Announced => Announced')
    BY <1>29, Zenon DEF Unplug, CableMoves, RaiseIrq, Announced, taskVars
  <2>2. Early' => Early
    BY <1>29, <1>early, Zenon DEF Unplug, CableMoves, RaiseIrq, hwVars, taskVars
  <2>. QED
    BY <2>1, <2>2, <1>0, FifoKept, Zenon
<1>30. CASE TxLost
  <2>1. UNCHANGED <<rx_fifo, irq, reader, isr>>
    BY <1>30, Zenon DEF TxLost, hwVars, taskVars, chipVars
  <2>2. Early' => Early
    BY <1>30, <1>early, Zenon DEF TxLost, hwVars, taskVars, chipVars
  <2>. QED
    BY <2>1, <2>2, <1>0, FifoKept, Zenon DEF Announced
<1>31. CASE SourceStep
  <2>1. auto_crc /\ RaiseIrq({"GCRCSENT"}) /\ UNCHANGED <<hwVars, vbus_lost_, pc, taskVars, auto_crc>>
    BY <1>31, SourceRaisesIrq, Zenon
  <2>2. "GCRCSENT" \in irq' /\ ~Early'
    BY <2>1, Zenon DEF RaiseIrq, Early, Measuring, Spawning
  <2>. QED
    BY <2>2, Zenon DEF FifoInv, NoStrandedMessage, Early
<1>32. CASE SourceExtra
  <2>1. auto_crc /\ RaiseIrq({"GCRCSENT"}) /\ UNCHANGED <<hwVars, vbus_lost_, pc, taskVars, auto_crc>>
    BY <1>32, SourceRaisesIrq, Zenon
  <2>2. "GCRCSENT" \in irq' /\ ~Early'
    BY <2>1, Zenon DEF RaiseIrq, Early, Measuring, Spawning
  <2>. QED
    BY <2>2, Zenon DEF FifoInv, NoStrandedMessage, Early
<1>33. CASE SourceReceives
  <2>1. Head(tx_fifo) \in SinkMessages
    BY <1>33, SeqTaken, ZenonT(60) DEF SourceReceives, TypeOK, PdTypeOK
  <2>2. Head(tx_fifo).id \in 0..7
    BY <2>1, Zenon DEF SinkMessages, Messages
  <2>3. Unread' => Unread
    BY <1>33, <1>0, <2>2, ZenonT(60) DEF SourceReceives
  <2>. QED
    BY <1>33, <2>3, ZenonT(60) DEF SourceReceives, FifoInv, NoStrandedMessage, PhaseInv, Starting,
      Measuring, Spawning, Running, Stopped, hwVars, taskVars, chipVars
<1>34. CASE Elapse
  <2>1. UNCHANGED <<rx_fifo, irq, reader, isr>>
    BY <1>34, Zenon DEF Elapse, hwVars, taskVars, chipVars
  <2>2. Early' => Early
    BY <1>34, <1>early, SMTT(30) DEF Elapse, hwVars, taskVars, chipVars
  <2>. QED
    BY <2>1, <2>2, <1>0, FifoKept, Zenon DEF Announced
<1>35. CASE Reboot
  <2>1. ~isr' /\ ~Early'
    BY <1>35, Zenon DEF Reboot, Early, Measuring, Spawning, LaterPcs
  <2>. QED
    BY <2>1, Zenon DEF FifoInv, NoStrandedMessage, Early
<1>36. CASE UNCHANGED vars
  <2>1. UNCHANGED <<rx_fifo, irq, reader, isr>>
    BY <1>36, Zenon DEF vars, hwVars, taskVars, chipVars
  <2>2. Early' => Early
    BY <1>36, <1>early, Zenon DEF vars, hwVars, taskVars, chipVars
  <2>. QED
    BY <2>1, <2>2, <1>0, FifoKept, Zenon DEF Announced
<1>. QED
  BY <1>1, <1>2, <1>3, <1>4, <1>5, <1>6, <1>7, <1>8, <1>9, <1>10, <1>11, <1>12,
     <1>13, <1>14, <1>15, <1>16, <1>17, <1>18, <1>19, <1>20, <1>21, <1>22, <1>23,
     <1>24, <1>25, <1>26, <1>27, <1>28, <1>29, <1>30, <1>31, <1>32, <1>33, <1>34,
     <1>35, <1>36, SMTT(30)
  DEF Next, MainLoop, TriggerTask, ReaderTask, Environment

-----------------------------------------------------------------------------
(* The theorems.                                                           *)

DriverInv == TypeOK /\ PhaseInv /\ WakeupInv /\ FifoInv /\ SoftResetInv

(* The driver powers up in a state of its invariant.                       *)
LEMMA DriverInvInit == Init => DriverInv
<1>. SUFFICES ASSUME Init
              PROVE  DriverInv
  BY Zenon
<1>1. PdTypeOK
  <2>1. /\ active_ams_ \in BOOLEAN /\ contract_timer_ \in BOOLEAN
        /\ wait_src_cap_ \in BOOLEAN /\ tried_soft_reset_ \in BOOLEAN
    BY Zenon DEF Init, PowerUp, PdInit
  <2>2. tx_fifo = <<>>
    BY Zenon DEF Init, PowerUp, PdInit
  <2>3. tx_fifo \in Seq(SinkMessages)
    BY <2>2, SMTT(30)
  <2>4. /\ state_ = "DISCONNECTED" /\ prev_state_ = "DISCONNECTED"
        /\ last_received_msg_id_ = NO_MSG_ID /\ msg_counter_ = 0
        /\ requested_contract_ = NoContract /\ accepted_contract_ = NoContract
        /\ get_src_cap_retry_count_ = 0 /\ request_voltage_ = ConfigVoltage /\ expired = {}
    BY Zenon DEF Init, PowerUp, PdInit
  <2>5. state_ \in PdStates /\ prev_state_ \in PdStates
    BY <2>4, Zenon DEF PdStates
  <2>6. /\ last_received_msg_id_ \in 0..7 \union {NO_MSG_ID} /\ msg_counter_ \in 0..255
        /\ get_src_cap_retry_count_ \in Nat /\ request_voltage_ \in 5..20
    BY <2>4, VoltagesAssumption, SMTT(30)
  <2>7. /\ requested_contract_ \in Contracts /\ accepted_contract_ \in Contracts
        /\ expired \subseteq Timers
    BY <2>4, ConstantTypes, Zenon
  <2>. QED
    BY <2>1, <2>3, <2>5, <2>6, <2>7, Zenon DEF PdTypeOK
<1>2. DriverTypeOK
  <2>1. /\ startup_delay_ \in BOOLEAN /\ vbus_lost_ \in BOOLEAN /\ failed \in BOOLEAN
        /\ isr \in BOOLEAN /\ cc1_lvl_ \in BOOLEAN
    BY Zenon DEF Init, PowerUp
  <2>2. rmsg \in Messages /\ message_queue_ \in Seq(Messages) /\ Len(message_queue_) <= QueueLength
    BY ConstantTypes, QueueLengthAssumption, SMTT(30) DEF Init, PowerUp
  <2>. QED
    BY <2>1, <2>2, Zenon DEF Init, PowerUp, DriverTypeOK, Pcs
<1>3. WorldTypeOK
  <2>1. rx_fifo \in Seq(Messages) /\ irq \subseteq {"GCRCSENT", "VBUSOK"}
    BY SMTT(30) DEF Init, PowerUp
  <2>2. auto_crc \in BOOLEAN /\ notified \in BOOLEAN
    BY Zenon DEF Init, PowerUp
  <2>3. src \in SourceStates
    BY ConstantTypes, Zenon DEF Init
  <2>4. budget \in [plug : Nat, reboot : Nat, extra : Nat, request : Nat]
    BY BoundsAssumption, Zenon DEF Init
  <2>. QED
    BY <2>1, <2>2, <2>3, <2>4, Zenon DEF WorldTypeOK
<1>4. PhaseInv
  BY Zenon DEF Init, PowerUp, PhaseInv, Starting
<1>5. WakeupInv
  BY Zenon DEF Init, PowerUp, WakeupInv, NoLostWakeup
<1>6. FifoInv
  BY Zenon DEF Init, PowerUp, FifoInv, NoStrandedMessage, Measuring, Spawning
<1>7. SoftResetInv
  BY SMTT(30) DEF Init, PowerUp, PdInit, SoftResetInv
<1>. QED
  BY <1>1, <1>2, <1>3, <1>4, <1>5, <1>6, <1>7, Zenon DEF DriverInv, TypeOK

(* The inductive invariant of the driver holds in every reachable state.   *)
THEOREM DriverInvariant == Spec => []DriverInv
<1>1. Init => DriverInv
  BY DriverInvInit, Zenon
<1>2. DriverInv /\ [Next]_vars => DriverInv'
  <2>. SUFFICES ASSUME DriverInv, [Next]_vars
                PROVE  DriverInv'
    BY Zenon
  <2>. USE DEF DriverInv
  <2>1. PdTypeOK' /\ DriverTypeOK' /\ WorldTypeOK'
    BY PdTypeStep, DriverTypeStep, WorldTypeStep, Zenon
  <2>2. PhaseInv'
    BY PhaseInvStep, Zenon
  <2>3. WakeupInv'
    BY WakeupInvStep, Zenon
  <2>4. FifoInv'
    BY <2>2, FifoInvStep, Zenon
  <2>5. SoftResetInv'
    BY SoftResetInvStep, Zenon
  <2>. QED
    BY <2>1, <2>2, <2>3, <2>4, <2>5, Zenon DEF TypeOK
<1>. QED
  BY <1>1, <1>2, PTL DEF Spec

(* Every variable keeps its type: among others, the queue between the two  *)
(* tasks stays within its length and msg_counter_ within a byte, whatever  *)
(* the source sends and whatever fails.                                    *)
THEOREM TypeCorrect == Spec => []TypeOK
<1>1. DriverInv => TypeOK
  BY Zenon DEF DriverInv
<1>. QED
  BY <1>1, DriverInvariant, PTL

(* The ISR loses no edge of INT_N: with the ISR in place, an interrupt the *)
(* chip has latched is one the reader task is about to look at.            *)
THEOREM WakeupsNotLost == Spec => []NoLostWakeup
<1>1. DriverInv => NoLostWakeup
  BY Zenon DEF DriverInv, WakeupInv
<1>. QED
  BY <1>1, DriverInvariant, PTL

(* No message of the source stays in the RX FIFO without an interrupt that *)
(* announces it or the reader's loop fetching it.                          *)
THEOREM MessagesNotStranded == Spec => []NoStrandedMessage
<1>1. DriverInv => NoStrandedMessage
  BY Zenon DEF DriverInv, FifoInv
<1>. QED
  BY <1>1, DriverInvariant, PTL

(* check_status_ sends at most one soft reset per attach, for every        *)
(* pattern of failures, delays and request_voltage calls.                  *)
THEOREM SoftResetOnce == Spec => []OneSoftResetPerAttach
<1>1. DriverInv => OneSoftResetPerAttach
  BY SMTT(30) DEF DriverInv, SoftResetInv, OneSoftResetPerAttach
<1>. QED
  BY <1>1, DriverInvariant, PTL

-----------------------------------------------------------------------------
(* The messages of the source as one pipe.                                 *)

(* Counting in bytes and sending three bits of it.                         *)
LEMMA ModFacts ==
  /\ \A c \in 0..255 : /\ ((c % 8) + 1) % 8 = (c + 1) % 8 /\ ((c + 1) % 256) % 8 = (c + 1) % 8
                       /\ (c + 0) % 8 = c % 8 /\ c % 8 \in 0..7 /\ (c + 1) % 256 \in 0..255
  /\ \A n \in 0..7 : (n + 1) % 8 # n /\ n # NO_MSG_ID
  /\ 0 % 8 = 0 /\ 0 \in 0..255
BY SMTT(30) DEF NO_MSG_ID

(* Three sequences in a row.                                               *)
LEMMA Joined ==
  ASSUME NEW S, NEW a \in Seq(S), NEW b \in Seq(S), NEW c \in Seq(S)
  PROVE  /\ a \o b \o c \in Seq(S)
         /\ Len(a) \in Nat /\ Len(b) \in Nat /\ Len(c) \in Nat
         /\ Len(a \o b \o c) = Len(a) + Len(b) + Len(c)
         /\ \A i \in 1..(Len(a) + Len(b) + Len(c)) :
              (a \o b \o c)[i] = IF i <= Len(a) THEN a[i]
                                 ELSE IF i <= Len(a) + Len(b) THEN b[i - Len(a)]
                                 ELSE c[i - Len(a) - Len(b)]
<1>1. /\ a \o b \in Seq(S) /\ Len(a \o b) = Len(a) + Len(b)
      /\ \A i \in 1..(Len(a) + Len(b)) :
           (a \o b)[i] = IF i <= Len(a) THEN a[i] ELSE b[i - Len(a)]
  BY SeqJoined, Zenon
<1>2. Len(a) \in Nat /\ Len(b) \in Nat /\ Len(c) \in Nat
  BY SeqShape, Zenon
<1>. DEFINE d == a \o b
<1>0. d \in Seq(S)
  BY <1>1, Zenon
<1>. HIDE DEF d
<1>3. /\ d \o c \in Seq(S) /\ Len(d \o c) = Len(d) + Len(c)
      /\ \A i \in 1..(Len(d) + Len(c)) :
           (d \o c)[i] = IF i <= Len(d) THEN d[i] ELSE c[i - Len(d)]
  BY <1>0, SeqJoined, Zenon
<1>4. /\ Len(d) = Len(a) + Len(b)
      /\ \A i \in 1..(Len(a) + Len(b)) : d[i] = IF i <= Len(a) THEN a[i] ELSE b[i - Len(a)]
  BY <1>1, Zenon DEF d
<1>5. ASSUME NEW i \in 1..(Len(a) + Len(b) + Len(c))
      PROVE  (d \o c)[i] = IF i <= Len(a) THEN a[i]
                           ELSE IF i <= Len(a) + Len(b) THEN b[i - Len(a)]
                           ELSE c[i - Len(a) - Len(b)]
  <2>1. (d \o c)[i] = IF i <= Len(d) THEN d[i] ELSE c[i - Len(d)]
    BY <1>2, <1>3, <1>4, SMTT(30)
  <2>2. i <= Len(d) => d[i] = IF i <= Len(a) THEN a[i] ELSE b[i - Len(a)]
    BY <1>2, <1>4, SMTT(30)
  <2>3. i - Len(d) = i - Len(a) - Len(b) /\ (i <= Len(a) => i <= Len(d))
    BY <1>2, <1>4, SMTT(30)
  <2>. QED
    BY <2>1, <2>2, <2>3, <1>4, Zenon
<1>6. d \o c \in Seq(S) /\ Len(d \o c) = Len(a) + Len(b) + Len(c)
  BY <1>3, <1>4, Zenon
<1>. QED
  BY <1>2, <1>5, <1>6, Zenon DEF d

(* The pipe, element by element.                                           *)
PipeShaped ==
  /\ message_queue_ \in Seq(Messages) /\ rx_fifo \in Seq(Messages)
  /\ Held \in Seq(Messages) /\ Pipe \in Seq(Messages)
  /\ Len(message_queue_) \in Nat /\ Len(Held) \in Nat /\ Len(rx_fifo) \in Nat
  /\ Len(Pipe) = Len(message_queue_) + Len(Held) + Len(rx_fifo)
  /\ \A i \in 1..Len(Pipe) :
       Pipe[i] = IF i <= Len(message_queue_) THEN message_queue_[i]
                 ELSE IF i <= Len(message_queue_) + Len(Held) THEN Held[i - Len(message_queue_)]
                 ELSE rx_fifo[i - Len(message_queue_) - Len(Held)]
  /\ \A i \in 1..Len(Pipe) : Pipe[i] \in Messages

(* It is the queue, what the reader holds, and the RX FIFO.                *)
LEMMA PipeShape == TypeOK => PipeShaped
<1>. SUFFICES ASSUME TypeOK
              PROVE  PipeShaped
  BY Zenon
<1>1. message_queue_ \in Seq(Messages) /\ rx_fifo \in Seq(Messages) /\ rmsg \in Messages
  BY Zenon DEF TypeOK, DriverTypeOK, WorldTypeOK
<1>2. Held \in Seq(Messages)
  BY <1>1, SMTT(30) DEF Held
<1>3. /\ Pipe \in Seq(Messages)
      /\ Len(message_queue_) \in Nat /\ Len(Held) \in Nat /\ Len(rx_fifo) \in Nat
      /\ Len(Pipe) = Len(message_queue_) + Len(Held) + Len(rx_fifo)
      /\ \A i \in 1..(Len(message_queue_) + Len(Held) + Len(rx_fifo)) :
              Pipe[i] = IF i <= Len(message_queue_) THEN message_queue_[i]
                        ELSE IF i <= Len(message_queue_) + Len(Held)
                             THEN Held[i - Len(message_queue_)]
                        ELSE rx_fifo[i - Len(message_queue_) - Len(Held)]
  BY <1>1, <1>2, Joined, SMTT(30) DEF Pipe
<1>4. \A i \in 1..Len(Pipe) : Pipe[i] \in Messages
  BY <1>3, SeqShape, Zenon
<1>. QED
  BY <1>1, <1>2, <1>3, <1>4, Zenon DEF PipeShaped

(* Before and after a step.                                                *)
LEMMA PipeShapes ==
  ASSUME TypeOK, TypeOK'
  PROVE  PipeShaped /\ PipeShaped'
<1>1. TypeOK' => PipeShaped'
  BY PipeShape, PTL
<1>. QED
  BY <1>1, PipeShape, Zenon

(* One element of it.                                                      *)
LEMMA PipeElement ==
  ASSUME TypeOK, TypeOK'
  PROVE  /\ Len(message_queue_) \in Nat /\ Len(Held) \in Nat /\ Len(rx_fifo) \in Nat
         /\ Len(message_queue_') \in Nat /\ Len(Held') \in Nat /\ Len(rx_fifo') \in Nat
         /\ Len(Pipe) = Len(message_queue_) + Len(Held) + Len(rx_fifo)
         /\ Len(Pipe') = Len(message_queue_') + Len(Held') + Len(rx_fifo')
         /\ \A i \in 1..Len(Pipe) :
              /\ i <= Len(message_queue_) => Pipe[i] = message_queue_[i]
              /\ i > Len(message_queue_) /\ i <= Len(message_queue_) + Len(Held)
                   => Pipe[i] = Held[i - Len(message_queue_)]
              /\ i > Len(message_queue_) + Len(Held)
                   => Pipe[i] = rx_fifo[i - Len(message_queue_) - Len(Held)]
         /\ \A i \in 1..Len(Pipe') :
              /\ i <= Len(message_queue_') => Pipe'[i] = message_queue_'[i]
              /\ i > Len(message_queue_') /\ i <= Len(message_queue_') + Len(Held')
                   => Pipe'[i] = Held'[i - Len(message_queue_')]
              /\ i > Len(message_queue_') + Len(Held')
                   => Pipe'[i] = rx_fifo'[i - Len(message_queue_') - Len(Held')]
BY PipeShapes, SMTT(30) DEF PipeShaped

(* fusb_reset_ empties the RX FIFO.                                        *)
LEMMA PipeCut ==
  ASSUME TypeOK, TypeOK', rx_fifo' = <<>>, message_queue_' = message_queue_, Held' = Held
  PROVE  /\ Len(Pipe') <= Len(Pipe)
         /\ \A i \in 1..Len(Pipe') : Pipe'[i] = Pipe[i]
         /\ message_queue_ = <<>> /\ Held = <<>> => Pipe' = <<>>
  BY PipeShapes, SMTT(30) DEF PipeShaped

(* The reader takes a message from the RX FIFO.                            *)
LEMMA PipeFetched ==
  ASSUME TypeOK, TypeOK', ReaderDrain, "i2c" \notin Faults
  PROVE  Pipe' = Pipe
<1>1. message_queue_' = message_queue_ /\ Held = <<>>
  BY Zenon DEF ReaderDrain, Held
<1>2. CASE rx_fifo = <<>>
  BY <1>1, <1>2, Zenon DEF ReaderDrain, Held, Pipe
<1>3. CASE rx_fifo # <<>>
  <2>1. rx_fifo' = Tail(rx_fifo) /\ Held' = <<Head(rx_fifo)>>
    BY <1>3, Zenon DEF ReaderDrain, Held
  <2>2. /\ Len(rx_fifo') = Len(rx_fifo) - 1 /\ Len(Held') = 1 /\ Held'[1] = rx_fifo[1] /\ Len(Held) = 0
        /\ \A i \in 1..Len(rx_fifo') : rx_fifo'[i] = rx_fifo[i + 1]
    BY <1>1, <1>3, <2>1, PipeShapes, SMTT(30) DEF PipeShaped
  <2>. DEFINE q == Len(message_queue_)
              n == Len(rx_fifo)
  <2>4. q \in Nat /\ n \in Nat /\ Len(Pipe) = q + n /\ Len(Pipe') = q + n /\ n >= 1
    BY <1>1, <2>2, PipeElement, SMTT(30)
  <2>. HIDE DEF q, n
  <2>5. ASSUME NEW i \in 1..Len(Pipe')
        PROVE  Pipe'[i] = Pipe[i]
    <3>1. i \in 1..Len(Pipe) /\ i \in Nat /\ i - q - 0 = i - q
      BY <2>4, SMTT(30)
    <3>2. CASE i <= q
      BY <1>1, <3>1, <3>2, PipeElement, Zenon DEF q
    <3>3. CASE i = q + 1
      <4>1. i > q /\ i > q + 0 /\ i <= q + 1 /\ i - q = 1 /\ i - q - 0 = 1
        BY <2>4, <3>3, SMTT(30)
      <4>. QED
        BY <1>1, <2>2, <3>1, <4>1, PipeElement, SMTT(30) DEF q
    <3>4. CASE i > q + 1
      <4>1. /\ i > q + 0 /\ i - q - 1 \in 1..(n - 1) /\ i - q - 1 + 1 = i - q - 0
        BY <2>4, <3>1, <3>4, SMTT(30)
      <4>2. Pipe'[i] = rx_fifo'[i - q - 1] /\ Pipe[i] = rx_fifo[i - q - 0]
        BY <1>1, <2>2, <3>1, <3>4, <4>1, PipeElement, SMTT(30) DEF q
      <4>3. rx_fifo'[i - q - 1] = rx_fifo[i - q - 1 + 1]
        BY <2>2, <4>1, SMTT(30) DEF n
      <4>. QED
        BY <4>1, <4>2, <4>3, Zenon
    <3>. QED
      BY <2>4, <3>1, <3>2, <3>3, <3>4, SMTT(30)
  <2>3. Len(Pipe') = Len(Pipe) /\ \A i \in 1..Len(Pipe') : Pipe'[i] = Pipe[i]
    BY <2>4, <2>5, Zenon
  <2>. QED
    BY <2>3, PipeShapes, SeqSame, Zenon DEF PipeShaped
<1>. QED
  BY <1>2, <1>3, Zenon

(* The reader puts it into the queue, or drops it.                         *)
LEMMA PipeQueued ==
  ASSUME TypeOK, TypeOK', ReaderEnqueue
  PROVE  \/ Pipe' = Pipe
         \/ /\ Len(message_queue_) >= QueueLength
            /\ Len(Pipe') = Len(Pipe) - 1
            /\ \A i \in 1..Len(Pipe') :
                 Pipe'[i] = IF i <= Len(message_queue_) THEN Pipe[i] ELSE Pipe[i + 1]
<1>1. rx_fifo' = rx_fifo /\ Held = <<rmsg>> /\ Held' = <<>>
  BY Zenon DEF ReaderEnqueue, Held, chipVars
<1>2. Len(Held) = 1 /\ Held[1] = rmsg /\ Len(Held') = 0
  BY <1>1, PipeShapes, SMTT(30) DEF PipeShaped
<1>3. CASE Len(message_queue_) < QueueLength
  <2>1. message_queue_' = Append(message_queue_, rmsg)
    BY <1>3, Zenon DEF ReaderEnqueue
  <2>2. /\ Len(message_queue_') = Len(message_queue_) + 1
        /\ \A i \in 1..Len(message_queue_) : message_queue_'[i] = message_queue_[i]
        /\ message_queue_'[Len(message_queue_) + 1] = rmsg
    BY <2>1, PipeShapes, SMTT(30) DEF PipeShaped, TypeOK, DriverTypeOK
  <2>3. Len(Pipe') = Len(Pipe) /\ \A i \in 1..Len(Pipe') : Pipe'[i] = Pipe[i]
    BY <1>1, <1>2, <2>2, PipeElement, SMTT(30)
  <2>. QED
    BY <2>3, PipeShapes, SeqSame, Zenon DEF PipeShaped
<1>4. CASE ~(Len(message_queue_) < QueueLength)
  <2>1. message_queue_' = message_queue_ /\ Len(message_queue_) >= QueueLength
    BY <1>4, QueueLengthAssumption, PipeShapes, SMTT(30) DEF ReaderEnqueue, PipeShaped
  <2>2. /\ Len(message_queue_) \in Nat /\ Len(rx_fifo) \in Nat
        /\ Len(Pipe) = Len(message_queue_) + 1 + Len(rx_fifo)
        /\ Len(Pipe') = Len(message_queue_) + Len(rx_fifo)
    BY <1>1, <1>2, <2>1, PipeElement, SMTT(30)
  <2>3. ASSUME NEW i \in 1..Len(Pipe')
        PROVE  Pipe'[i] = IF i <= Len(message_queue_) THEN Pipe[i] ELSE Pipe[i + 1]
    <3>1. /\ i <= Len(message_queue_) => Pipe'[i] = message_queue_[i]
          /\ i > Len(message_queue_) => Pipe'[i] = rx_fifo[i - Len(message_queue_)]
      <4>1. /\ i <= Len(message_queue_') => Pipe'[i] = message_queue_'[i]
            /\ i > Len(message_queue_') + Len(Held')
                 => Pipe'[i] = rx_fifo'[i - Len(message_queue_') - Len(Held')]
        BY PipeElement, Zenon
      <4>. QED
        BY <1>1, <1>2, <2>1, <2>2, <4>1, SMTT(30)
    <3>2. i \in 1..Len(Pipe) /\ i + 1 \in 1..Len(Pipe)
      BY <2>2, SMTT(30)
    <3>3. i <= Len(message_queue_) => Pipe[i] = message_queue_[i]
      BY <3>2, PipeElement, Zenon
    <3>4. i > Len(message_queue_) => Pipe[i + 1] = rx_fifo[i - Len(message_queue_)]
      <4>1. i + 1 > Len(message_queue_) + Len(Held)
              => Pipe[i + 1] = rx_fifo[i + 1 - Len(message_queue_) - Len(Held)]
        BY <3>2, PipeElement, SMTT(30)
      <4>2. ASSUME i > Len(message_queue_)
            PROVE  /\ i + 1 > Len(message_queue_) + Len(Held)
                   /\ i + 1 - Len(message_queue_) - Len(Held) = i - Len(message_queue_)
        BY <1>2, <2>2, <4>2, SMTT(30)
      <4>. QED
        BY <4>1, <4>2, Zenon
    <3>5. i <= Len(message_queue_) \/ i > Len(message_queue_)
      BY <2>2, SMTT(30)
    <3>. QED
      BY <3>1, <3>3, <3>4, <3>5, Zenon
  <2>4. Len(Pipe') = Len(Pipe) - 1
    BY <2>2, SMTT(30)
  <2>. QED
    BY <2>1, <2>3, <2>4, Zenon
<1>. QED
  BY <1>3, <1>4, Zenon

(* The trigger task takes a message from the queue.                        *)
LEMMA PipeTaken ==
  ASSUME TypeOK, TypeOK', TriggerReceive
  PROVE  /\ Pipe[1] = Head(message_queue_) /\ Pipe[1] \in Messages
         /\ Len(Pipe) >= 1 /\ Len(Pipe') = Len(Pipe) - 1
         /\ \A i \in 1..Len(Pipe') : Pipe'[i] = Pipe[i + 1]
<1>1. /\ message_queue_ # <<>> /\ message_queue_' = Tail(message_queue_)
      /\ rx_fifo' = rx_fifo /\ Held' = Held
  BY Zenon DEF TriggerReceive, Held, chipVars
<1>2. /\ Len(message_queue_) >= 1 /\ Len(message_queue_') = Len(message_queue_) - 1
      /\ \A i \in 1..Len(message_queue_') : message_queue_'[i] = message_queue_[i + 1]
      /\ Head(message_queue_) = message_queue_[1]
  BY <1>1, PipeShapes, SMTT(30) DEF PipeShaped
<1>3. Pipe[1] \in Messages
  BY <1>2, PipeShapes, SMTT(30) DEF PipeShaped
<1>. DEFINE q == Len(message_queue_)
            h == Len(Held)
<1>4. /\ q \in Nat /\ h \in Nat /\ q >= 1 /\ Len(message_queue_') = q - 1
      /\ Len(Pipe) \in Nat /\ Len(Pipe) >= 1 /\ Len(Pipe') = Len(Pipe) - 1
      /\ Pipe[1] = message_queue_[1]
  BY <1>1, <1>2, PipeElement, SMTT(30)
<1>. HIDE DEF q, h
<1>5. ASSUME NEW i \in 1..Len(Pipe')
      PROVE  Pipe'[i] = Pipe[i + 1]
  <2>1. i \in Nat /\ i + 1 \in 1..Len(Pipe)
    BY <1>4, SMTT(30)
  <2>2. CASE i <= q - 1
    <3>1. i + 1 <= q /\ i \in 1..(q - 1)
      BY <1>4, <2>1, <2>2, SMTT(30)
    <3>2. Pipe'[i] = message_queue_'[i] /\ Pipe[i + 1] = message_queue_[i + 1]
      BY <1>4, <2>1, <2>2, <3>1, PipeElement, Zenon DEF q
    <3>. QED
      BY <1>2, <1>4, <3>1, <3>2, Zenon
  <2>3. CASE i > q - 1 /\ i <= q - 1 + h
    <3>1. i + 1 > q /\ i + 1 <= q + h /\ i + 1 - q = i - (q - 1)
      BY <1>4, <2>1, <2>3, SMTT(30)
    <3>2. Pipe'[i] = Held[i - (q - 1)] /\ Pipe[i + 1] = Held[i + 1 - q]
      BY <1>1, <1>4, <2>1, <2>3, <3>1, PipeElement, SMTT(30) DEF q, h
    <3>. QED
      BY <3>1, <3>2, Zenon
  <2>4. CASE i > q - 1 + h
    <3>1. i + 1 > q + h /\ i + 1 - q - h = i - (q - 1) - h
      BY <1>4, <2>1, <2>4, SMTT(30)
    <3>2. Pipe'[i] = rx_fifo[i - (q - 1) - h] /\ Pipe[i + 1] = rx_fifo[i + 1 - q - h]
      BY <1>1, <1>4, <2>1, <2>4, <3>1, PipeElement, SMTT(30) DEF q, h
    <3>. QED
      BY <3>1, <3>2, Zenon
  <2>. QED
    BY <1>4, <2>1, <2>2, <2>3, <2>4, SMTT(30)
<1>. QED
  BY <1>2, <1>3, <1>4, <1>5, Zenon

(* The RX FIFO grows by k messages.                                        *)
LEMMA PipeLonger ==
  ASSUME TypeOK, TypeOK', message_queue_' = message_queue_, Held' = Held, NEW k \in Nat,
         Len(rx_fifo') = Len(rx_fifo) + k, \A i \in 1..Len(rx_fifo) : rx_fifo'[i] = rx_fifo[i]
  PROVE  /\ Len(Pipe) \in Nat /\ Len(Pipe') = Len(Pipe) + k
         /\ \A i \in 1..Len(Pipe) : Pipe'[i] = Pipe[i]
         /\ \A j \in 1..k : Pipe'[Len(Pipe) + j] = rx_fifo'[Len(rx_fifo) + j]
<1>. DEFINE q == Len(message_queue_)
            h == Len(Held)
            n == Len(rx_fifo)
<1>1. /\ q \in Nat /\ h \in Nat /\ n \in Nat
      /\ Len(Pipe) = q + h + n /\ Len(Pipe') = q + h + n + k
  BY PipeElement, SMTT(30)
<1>. HIDE DEF q, h, n
<1>2. ASSUME NEW i \in 1..Len(Pipe)
      PROVE  Pipe'[i] = Pipe[i]
  <2>1. i \in 1..Len(Pipe') /\ i \in Nat
    BY <1>1, SMTT(30)
  <2>2. CASE i <= q
    BY <2>1, <2>2, PipeElement, Zenon DEF q
  <2>4. CASE i > q /\ i <= q + h
    BY <2>1, <2>4, PipeElement, Zenon DEF q, h
  <2>3. CASE i > q + h
    <3>1. i - q - h \in 1..n
      BY <1>1, <2>1, <2>3, SMTT(30)
    <3>2. Pipe'[i] = rx_fifo'[i - q - h] /\ Pipe[i] = rx_fifo[i - q - h]
      BY <2>1, <2>3, PipeElement, Zenon DEF q, h
    <3>. QED
      BY <3>1, <3>2, Zenon DEF n
  <2>5. i <= q \/ (i > q /\ i <= q + h) \/ i > q + h
    BY <1>1, <2>1, SMTT(30)
  <2>. QED
    BY <2>2, <2>3, <2>4, <2>5, Zenon
<1>3. ASSUME NEW j \in 1..k
      PROVE  Pipe'[Len(Pipe) + j] = rx_fifo'[Len(rx_fifo) + j]
  <2>1. /\ Len(Pipe) + j \in 1..Len(Pipe') /\ Len(Pipe) + j > q + h
        /\ Len(Pipe) + j - q - h = n + j
    BY <1>1, SMTT(30)
  <2>2. Pipe'[Len(Pipe) + j] = rx_fifo'[Len(Pipe) + j - q - h]
    BY <2>1, PipeElement, SMTT(30) DEF q, h
  <2>. QED
    BY <2>1, <2>2, Zenon DEF n
<1>4. Len(Pipe) \in Nat /\ Len(Pipe') = Len(Pipe) + k
  BY <1>1, SMTT(30)
<1>. QED
  BY <1>2, <1>3, <1>4, Zenon

(* A message arrives in the RX FIFO ...                                    *)
LEMMA PipeGrown ==
  ASSUME TypeOK, TypeOK', NEW m \in Messages, message_queue_' = message_queue_, Held' = Held,
         rx_fifo' = Append(rx_fifo, m)
  PROVE  /\ Len(Pipe) \in Nat /\ Len(Pipe') = Len(Pipe) + 1
         /\ \A i \in 1..Len(Pipe) : Pipe'[i] = Pipe[i]
         /\ Pipe'[Len(Pipe) + 1] = m
<1>1. /\ Len(rx_fifo') = Len(rx_fifo) + 1 /\ rx_fifo'[Len(rx_fifo) + 1] = m
      /\ \A i \in 1..Len(rx_fifo) : rx_fifo'[i] = rx_fifo[i]
  BY PipeShapes, SeqAdded, SMTT(30) DEF PipeShaped
<1>2. 1 \in Nat /\ 1 \in 1..1
  BY SMTT(30)
<1>. QED
  BY <1>1, <1>2, PipeLonger, Zenon

(* ... perhaps twice.                                                      *)
LEMMA PipeGrownTwice ==
  ASSUME TypeOK, TypeOK', NEW m \in Messages, message_queue_' = message_queue_, Held' = Held,
         rx_fifo' = rx_fifo \o <<m, m>>
  PROVE  /\ Len(Pipe) \in Nat /\ Len(Pipe') = Len(Pipe) + 2
         /\ \A i \in 1..Len(Pipe) : Pipe'[i] = Pipe[i]
         /\ Pipe'[Len(Pipe) + 1] = m /\ Pipe'[Len(Pipe) + 2] = m
<1>1. /\ Len(rx_fifo') = Len(rx_fifo) + 2
      /\ rx_fifo'[Len(rx_fifo) + 1] = m /\ rx_fifo'[Len(rx_fifo) + 2] = m
      /\ \A i \in 1..Len(rx_fifo) : rx_fifo'[i] = rx_fifo[i]
  BY PipeShapes, SMTT(30) DEF PipeShaped
<1>2. 2 \in Nat /\ 1 \in 1..2 /\ 2 \in 1..2
  BY SMTT(30)
<1>. QED
  BY <1>1, <1>2, PipeLonger, Zenon

(* The source's message comes last.                                        *)
LEMMA PipeEmitted ==
  ASSUME TypeOK, TypeOK', NEW m \in Messages, UNCHANGED <<message_queue_, Held>>,
         rx_fifo' = Append(rx_fifo, m) \/ rx_fifo' = rx_fifo \o <<m, m>>
  PROVE  /\ Len(Pipe) \in Nat /\ Len(Pipe') \in {Len(Pipe) + 1, Len(Pipe) + 2}
         /\ Len(Pipe) + 1 \in 1..Len(Pipe') /\ Pipe'[Len(Pipe) + 1] = m
         /\ \A i \in 1..Len(Pipe) : i \in 1..Len(Pipe') /\ Pipe'[i] = Pipe[i]
         /\ \A i \in 1..Len(Pipe') : i \in 1..Len(Pipe) \/ Pipe'[i] = m
<1>1. /\ Len(Pipe) \in Nat /\ \A i \in 1..Len(Pipe) : Pipe'[i] = Pipe[i]
      /\ \/ Len(Pipe') = Len(Pipe) + 1 /\ Pipe'[Len(Pipe) + 1] = m
         \/ /\ Len(Pipe') = Len(Pipe) + 2
            /\ Pipe'[Len(Pipe) + 1] = m /\ Pipe'[Len(Pipe) + 2] = m
  <2>1. CASE rx_fifo' = Append(rx_fifo, m)
    BY <2>1, PipeGrown, Zenon
  <2>2. CASE rx_fifo' = rx_fifo \o <<m, m>>
    BY <2>2, PipeGrownTwice, Zenon
  <2>. QED
    BY <2>1, <2>2, Zenon
<1>2. /\ \A i \in 1..Len(Pipe) : i \in 1..Len(Pipe')
      /\ Len(Pipe) + 1 \in 1..Len(Pipe')
      /\ \A i \in 1..Len(Pipe') : i \in 1..Len(Pipe) \/ i = Len(Pipe) + 1 \/ i = Len(Pipe) + 2
  BY <1>1, SMTT(30)
<1>3. ASSUME NEW i \in 1..Len(Pipe'), i \notin 1..Len(Pipe)
      PROVE  Pipe'[i] = m
  <2>1. CASE Len(Pipe') = Len(Pipe) + 1
    <3>1. i = Len(Pipe) + 1
      BY <1>1, <1>3, <2>1, SMTT(30)
    <3>. QED
      BY <1>1, <3>1, Zenon
  <2>2. CASE Len(Pipe') = Len(Pipe) + 2
    <3>1. Len(Pipe) + 2 # Len(Pipe) + 1
      BY <1>1, SMTT(30)
    <3>. QED
      BY <1>1, <1>2, <1>3, <2>2, <3>1, Zenon
  <2>. QED
    BY <1>1, <2>1, <2>2, Zenon
<1>. QED
  BY <1>1, <1>2, <1>3, Zenon

(* Nothing in the queue and nothing announced: only acknowledges are left. *)
LEMMA QuietPipe ==
  ASSUME TypeOK, FifoInv, "i2c" \notin Faults, message_queue_ = <<>>,
         reader \notin {"drain", "enqueue"},
         Measuring \/ Spawning \/ (isr /\ "GCRCSENT" \notin irq)
  PROVE  OnlyGoodCrc
<1>1. ~Unread
  BY Zenon DEF FifoInv, NoStrandedMessage
<1>2. Held = <<>>
  BY Zenon DEF Held
<1>3. PipeShaped
  BY PipeShape, Zenon
<1>4. ASSUME NEW i \in 1..Len(Pipe)
      PROVE  Pipe[i].type = "GOODCRC"
  <2>1. Len(message_queue_) = 0 /\ Len(Held) = 0
    BY <1>2, SMTT(30)
  <2>2. Pipe[i] = rx_fifo[i] /\ i \in 1..Len(rx_fifo)
    BY <1>3, <2>1, SMTT(30) DEF PipeShaped
  <2>. QED
    BY <1>1, <2>2, Zenon DEF Unread
<1>. QED
  BY <1>4, Zenon DEF OnlyGoodCrc

(* The driver's own messages.                                              *)
LEMMA TxShape ==
  ASSUME TypeOK
  PROVE  /\ tx_fifo \in Seq(SinkMessages) /\ Len(tx_fifo) \in Nat
         /\ tx_fifo = <<>> <=> Len(tx_fifo) = 0
         /\ tx_fifo = <<>> => \A m : Append(tx_fifo, m) = <<m>>
         /\ \A m \in SinkMessages :
              /\ Append(tx_fifo, m) # <<>> /\ Len(Append(tx_fifo, m)) = Len(tx_fifo) + 1
              /\ Append(tx_fifo, m)[Len(tx_fifo) + 1] = m
              /\ \A i \in 1..Len(tx_fifo) : Append(tx_fifo, m)[i] = tx_fifo[i]
         /\ tx_fifo # <<>> =>
              /\ Head(tx_fifo) = tx_fifo[1] /\ Head(tx_fifo) \in SinkMessages
              /\ Len(Tail(tx_fifo)) = Len(tx_fifo) - 1
              /\ \A i \in 1..Len(Tail(tx_fifo)) : Tail(tx_fifo)[i] = tx_fifo[i + 1]
              /\ Len(tx_fifo) = 1 => Tail(tx_fifo) = <<>>
<1>1. tx_fifo \in Seq(SinkMessages)
  BY Zenon DEF TypeOK, PdTypeOK
<1>2. Len(tx_fifo) \in Nat /\ (tx_fifo = <<>> <=> Len(tx_fifo) = 0)
  BY <1>1, SMTT(30)
<1>4. tx_fifo = <<>> => \A m : Append(tx_fifo, m) = <<m>>
  BY SMTT(30)
<1>5. \A m \in SinkMessages :
        /\ Append(tx_fifo, m) # <<>> /\ Len(Append(tx_fifo, m)) = Len(tx_fifo) + 1
        /\ Append(tx_fifo, m)[Len(tx_fifo) + 1] = m
        /\ \A i \in 1..Len(tx_fifo) : Append(tx_fifo, m)[i] = tx_fifo[i]
  BY <1>1, SeqAdded, SMTT(30)
<1>6. ASSUME tx_fifo # <<>>
      PROVE  /\ Head(tx_fifo) = tx_fifo[1] /\ Head(tx_fifo) \in SinkMessages
             /\ Len(Tail(tx_fifo)) = Len(tx_fifo) - 1
             /\ \A i \in 1..Len(Tail(tx_fifo)) : Tail(tx_fifo)[i] = tx_fifo[i + 1]
             /\ Len(tx_fifo) = 1 => Tail(tx_fifo) = <<>>
  <2>1. /\ Head(tx_fifo) \in SinkMessages /\ Tail(tx_fifo) \in Seq(SinkMessages)
        /\ Len(Tail(tx_fifo)) = Len(tx_fifo) - 1
        /\ \A i \in 1..Len(Tail(tx_fifo)) : Tail(tx_fifo)[i] = tx_fifo[i + 1]
    BY <1>1, <1>6, SeqTaken, Zenon
  <2>2. Head(tx_fifo) = tx_fifo[1]
    BY <1>1, <1>6, SMTT(30)
  <2>3. Len(tx_fifo) = 1 => Len(Tail(tx_fifo)) = 0
    BY <2>1, SMTT(30)
  <2>4. Len(tx_fifo) = 1 => Tail(tx_fifo) = <<>>
    <3>1. Tail(tx_fifo) # <<>> => Len(Tail(tx_fifo)) # 0
      BY <2>1, SeqShape, Zenon
    <3>. QED
      BY <2>3, <3>1, Zenon
  <2>. QED
    BY <2>1, <2>2, <2>4, Zenon
<1>. QED
  BY <1>1, <1>2, <1>4, <1>5, <1>6, Zenon

-----------------------------------------------------------------------------
(* The steps that move no message: the pipe and the exchange stay as they  *)
(* are.                                                                    *)
flowVars == <<src, tx_fifo, rx_fifo, message_queue_, Held, Pipe, idVars, trigger>>

LoopAside ==
  \/ RunDeferred \/ RequestVoltage \/ LoopStart \/ LoopDetachState \/ LoopCcIdle
  \/ LoopCcSettle1 \/ LoopCcSettle2 \/ LoopReattachCrc \/ LoopArm \/ LoopAttached
  \/ LoopPdTimeout \/ LoopTimer

ReaderAside == ReaderCrc \/ ReaderWake \/ ReaderStatus

Aside == LoopAside \/ ReaderAside \/ Elapse \/ UNCHANGED vars

(* The main loop's steps leave the tasks and the interrupt alone ...       *)
LEMMA LoopAsideKeeps ==
  LoopAside => UNCHANGED <<flowVars, reader, rmsg, isr, irq, notified>>
<1>. USE DEF flowVars, Held, Pipe, pdVars, taskVars, chipVars, idVars
<1>2. CASE RunDeferred
  BY <1>2, Zenon DEF RunDeferred
<1>3. CASE RequestVoltage
  BY <1>3, Zenon DEF RequestVoltage, request_voltage
<1>4. CASE LoopStart
  BY <1>4, Zenon DEF LoopStart
<1>6. CASE LoopDetachState
  BY <1>6, Zenon DEF LoopDetachState
<1>7. CASE LoopCcIdle
  BY <1>7, Zenon DEF LoopCcIdle
<1>8. CASE LoopCcSettle1
  BY <1>8, Zenon DEF LoopCcSettle1
<1>9. CASE LoopCcSettle2
  BY <1>9, Zenon DEF LoopCcSettle2
<1>11. CASE LoopReattachCrc
  BY <1>11, Zenon DEF LoopReattachCrc
<1>13. CASE LoopArm
  BY <1>13, Zenon DEF LoopArm
<1>14. CASE LoopAttached
  BY <1>14, Zenon DEF LoopAttached
<1>17. CASE LoopPdTimeout
  BY <1>17, Zenon DEF LoopPdTimeout
<1>18. CASE LoopTimer
  BY <1>18, Zenon DEF LoopTimer
<1>. HIDE DEF flowVars, Held, Pipe, pdVars, taskVars, chipVars, idVars
<1>. QED
  BY <1>2, <1>3, <1>4, <1>6, <1>7, <1>8, <1>9, <1>11, <1>13, <1>14, <1>17, <1>18, Zenon
  DEF LoopAside

(* ... and none of these steps moves a message.                            *)
LEMMA AsideKeeps == Aside => UNCHANGED flowVars
<1>1. CASE LoopAside
  BY <1>1, LoopAsideKeeps, Zenon
<1>. USE DEF flowVars, Held, Pipe, pdVars, taskVars, chipVars, idVars
<1>2. CASE ReaderCrc
  BY <1>2, Zenon DEF ReaderCrc
<1>3. CASE ReaderWake
  BY <1>3, Zenon DEF ReaderWake
<1>4. CASE ReaderStatus
  <2>1. UNCHANGED <<src, tx_fifo, rx_fifo, message_queue_, idVars, trigger>>
    BY <1>4, Zenon DEF ReaderStatus
  <2>2. reader # "enqueue" /\ reader' # "enqueue"
    BY <1>4, SMTT(30) DEF ReaderStatus
  <2>. QED
    BY <2>1, <2>2, Zenon
<1>5. CASE Elapse
  BY <1>5, Zenon DEF Elapse
<1>6. CASE UNCHANGED vars
  BY <1>6, Zenon DEF vars
<1>. QED
  BY <1>1, <1>2, <1>3, <1>4, <1>5, <1>6, Zenon DEF Aside, ReaderAside

(* Every step is one of these or one of the nineteen that do.              *)
LEMMA StepKinds ==
  ASSUME [Next]_vars
  PROVE  \/ Aside
         \/ Setup \/ LoopDetachReset \/ LoopReattachReset \/ LoopSoftReset \/ LoopSpawn \/ LoopSend
         \/ TriggerCreate \/ TriggerReceive \/ TriggerSoftReset
         \/ ReaderReset \/ ReaderDrain \/ ReaderEnqueue
         \/ Plug \/ Unplug \/ TxLost \/ SourceStep \/ SourceExtra \/ SourceReceives \/ Reboot
BY Zenon DEF Next, MainLoop, TriggerTask, ReaderTask, Environment, Aside, LoopAside, ReaderAside

-----------------------------------------------------------------------------
(* What the steps that move messages do.                                   *)

(* What a handler of message m answers, and how it moves the ids.          *)
Handles(m) ==
  /\ m.type \in Unanswered => tx_fifo' = tx_fifo
  /\ m.type # "GOODCRC" /\ m.id = last_received_msg_id_ =>
       tx_fifo' = tx_fifo /\ last_received_msg_id_' = last_received_msg_id_
  /\ m.type \notin Unanswered /\ m.id # last_received_msg_id_ =>
       \/ tx_fifo' = tx_fifo /\ ~StartsSoftReset(m)
       \/ \E x \in SinkMessages :
            /\ tx_fifo' = Append(tx_fifo, x)
            /\ x.type = "REQUEST" => m.type = "SOURCE_CAP"
            /\ x.id = IF StartsSoftReset(m) THEN 0 ELSE NextId
  /\ m.type # "GOODCRC" =>
       last_received_msg_id_' = m.id /\ msg_counter_' = msg_counter_
  /\ m.type = "GOODCRC" /\ m.objs = <<>> =>
       /\ msg_counter_' = (msg_counter_ + 1) % 256
       /\ last_received_msg_id_' = last_received_msg_id_
       /\ UNCHANGED <<capVars, expired, stateVars, contractVars, active_ams_>>
  /\ m.type = "SOURCE_CAP" /\ m.objs # <<>> /\ m.id # last_received_msg_id_ =>
       wait_src_cap_' = FALSE
  /\ expired' \subseteq expired

(* handle_message, case by case.                                           *)
LEMMA MessageHandled ==
  ASSUME TypeOK, "i2c" \notin Faults, NEW m \in Messages, handle_message(m)
  PROVE  Handles(m)
<1>. USE DEF Unanswered, idVars
<1>0. m.id \in 0..7 /\ m.objs \in Seq(Contracts) /\ m.type \in MsgTypes /\ PdTypeOK
  BY Zenon DEF Messages, TypeOK
<1>1. CASE m.objs = <<>> /\ m.type = "GOODCRC"
  <2>1. handle_goodcrc
    BY <1>1, Zenon DEF handle_message
  <2>. QED
    BY <1>1, <2>1, Zenon DEF handle_goodcrc, Handles
<1>2. CASE ~(m.objs = <<>> /\ m.type = "GOODCRC") /\ m.id = last_received_msg_id_
  <2>1. handle_duplicate
    BY <1>2, Zenon DEF handle_message
  <2>. QED
    BY <1>2, <2>1, Zenon DEF handle_duplicate, Handles
<1>3. CASE m.id # last_received_msg_id_ /\ m.objs # <<>>
  <2>1. CASE m.type = "SOURCE_CAP"
    <3>1. handle_source_cap(m)
      BY <1>3, <2>1, Zenon DEF handle_message
    <3>. DEFINE x == Msg("REQUEST", NextId, <<requested_contract_'>>)
    <3>2. requested_contract_' \in Contracts
      BY <1>0, <3>1, RequestedContractType, Zenon DEF handle_source_cap
    <3>3. "REQUEST" \in MsgTypes /\ NextId \in 0..7
      BY <1>0, NextIdType, Zenon DEF MsgTypes
    <3>4. x \in SinkMessages
      BY <3>2, <3>3, MessageTypes, Zenon
    <3>5. x.id = NextId
      BY Zenon DEF Msg
    <3>6. tx_fifo' = Append(tx_fifo, x)
      BY <3>1, Zenon DEF handle_source_cap, send_message
    <3>. HIDE DEF x
    <3>7. ~StartsSoftReset(m)
      BY <2>1, Zenon DEF StartsSoftReset
    <3>. QED
      BY <1>3, <2>1, <3>1, <3>4, <3>5, <3>6, <3>7, Zenon DEF handle_source_cap, Handles
  <2>2. CASE m.type # "SOURCE_CAP"
    <3>1. handle_other_data(m)
      BY <1>3, <2>2, <1>0, Zenon DEF handle_message
    <3>2. ~StartsSoftReset(m)
      BY <1>3, Zenon DEF StartsSoftReset
    <3>. QED
      BY <1>3, <2>2, <3>1, <3>2, Zenon DEF handle_other_data, Handles
  <2>. QED
    BY <2>1, <2>2, Zenon
<1>4. CASE m.id # last_received_msg_id_ /\ m.objs = <<>> /\ m.type # "GOODCRC"
  <2>1. CASE m.type = "ACCEPT"
    <3>1. handle_accept(m)
      BY <1>4, <2>1, Zenon DEF handle_message
    <3>2. expired' \subseteq expired
      BY <3>1, Zenon DEF handle_accept
    <3>. QED
      BY <1>4, <2>1, <3>1, <3>2, Zenon DEF handle_accept, Handles
  <2>2. CASE m.type = "PS_RDY"
    <3>1. handle_ps_rdy(m)
      BY <1>4, <2>2, Zenon DEF handle_message
    <3>. QED
      BY <1>4, <2>2, <3>1, Zenon DEF handle_ps_rdy, Handles
  <2>3. CASE m.type = "SOFT_RESET"
    <3>1. handle_soft_reset_send(m)
      BY <1>4, <2>3, Zenon DEF handle_message
    <3>2. "ACCEPT" \in MsgTypes /\ 0 \in 0..7 /\ "ACCEPT" # "REQUEST"
      BY SMTT(30) DEF MsgTypes
    <3>3. CntrlMsg("ACCEPT", 0) \in SinkMessages
      BY <3>2, MessageTypes, Zenon
    <3>4. CntrlMsg("ACCEPT", 0).id = 0 /\ CntrlMsg("ACCEPT", 0).type = "ACCEPT"
      BY Zenon DEF CntrlMsg, Msg
    <3>5. tx_fifo' = Append(tx_fifo, CntrlMsg("ACCEPT", 0))
      BY <3>1, Zenon DEF handle_soft_reset_send, send_message
    <3>6. StartsSoftReset(m)
      BY <1>4, <2>3, Zenon DEF StartsSoftReset
    <3>7. /\ last_received_msg_id_' = m.id /\ msg_counter_' = msg_counter_ /\ expired' = expired
      BY <3>1, Zenon DEF handle_soft_reset_send
    <3>. QED
      BY <1>4, <2>3, <3>2, <3>3, <3>4, <3>5, <3>6, <3>7, Zenon DEF Handles
  <2>4. CASE m.type \notin {"ACCEPT", "PS_RDY", "SOFT_RESET"}
    <3>1. handle_query(m)
      BY <1>4, <2>4, Zenon DEF handle_message
    <3>. DEFINE x == IF m.type = "GET_SINK_CAP" THEN Msg("SINK_CAP", NextId, <<SinkCap>>)
                     ELSE CntrlMsg("NOT_SUPPORTED", NextId)
    <3>2. "SINK_CAP" \in MsgTypes /\ "NOT_SUPPORTED" \in MsgTypes /\ "NOT_SUPPORTED" # "REQUEST"
          /\ NextId \in 0..7
      BY <1>0, NextIdType, Zenon DEF MsgTypes
    <3>3. x \in SinkMessages
      BY <3>2, MessageTypes, ConstantTypes, Zenon
    <3>4. x.id = NextId /\ x.type # "REQUEST"
      BY Zenon DEF CntrlMsg, Msg
    <3>5. tx_fifo' = Append(tx_fifo, x)
      BY <3>1, Zenon DEF handle_query, send_message
    <3>. HIDE DEF x
    <3>6. ~StartsSoftReset(m)
      BY <2>4, Zenon DEF StartsSoftReset
    <3>7. /\ last_received_msg_id_' = m.id /\ msg_counter_' = msg_counter_ /\ expired' = expired
      BY <3>1, Zenon DEF handle_query
    <3>. QED
      BY <1>4, <2>4, <3>3, <3>4, <3>5, <3>6, <3>7, Zenon DEF Handles
  <2>. QED
    BY <2>1, <2>2, <2>3, <2>4, Zenon
<1>. QED
  BY <1>1, <1>2, <1>3, <1>4, Zenon

(* What the source does with a message m of its own.                       *)
Emits(m) ==
  /\ \/ rx_fifo' = Append(rx_fifo, m)
     \/ "dup" \in Faults /\ rx_fifo' = rx_fifo \o <<m, m>>
  /\ src.plugged /\ src'.plugged /\ src'.caps = src.caps /\ src'.surprised = src.surprised
  /\ src'.last \in {src.last, NO_MSG_ID}
  /\ m.type # "GOODCRC" /\ (m.type \notin Unanswered => Waits(m)')
  /\ SourceQuiet => Settled
  /\ src.mode = "reset" => m.type = "ACCEPT" /\ m.id = 0 /\ src'.mode = "caps" /\ src'.id = 1
  /\ src.mode = "caps" => m.type = "SOURCE_CAP" /\ m.id = src.id /\ m.objs = src.caps
                          /\ src'.mode = "wait_req"

(* A record of the source with one more id.                                *)
LEMMA SourceNext ==
  ASSUME NEW next \in SourceStates, NEW m \in Messages, SourceSends(m, next)
  PROVE  /\ src'.plugged = next.plugged /\ src'.caps = next.caps /\ src'.last = next.last
         /\ src'.surprised = next.surprised /\ src'.mode = next.mode /\ src'.id = (m.id + 1) % 8
         /\ src.plugged
         /\ \/ rx_fifo' = Append(rx_fifo, m)
            \/ "dup" \in Faults /\ rx_fifo' = rx_fifo \o <<m, m>>
<1>1. src' = [next EXCEPT !.id = (m.id + 1) % 8] /\ src.plugged
  BY Zenon DEF SourceSends
<1>2. /\ src'.plugged = next.plugged /\ src'.caps = next.caps /\ src'.last = next.last
      /\ src'.surprised = next.surprised /\ src'.mode = next.mode /\ src'.id = (m.id + 1) % 8
  BY <1>1, Zenon DEF SourceStates
<1>3. \/ rx_fifo' = Append(rx_fifo, m)
      \/ "dup" \in Faults /\ rx_fifo' = rx_fifo \o <<m, m>>
  BY Zenon DEF SourceSends
<1>. QED
  BY <1>1, <1>2, <1>3, Zenon

(* The records of the source in its protocol.                              *)
LEMMA SourceUpdates ==
  ASSUME src \in SourceStates, NEW mode
  PROVE  /\ LET next == [src EXCEPT !.mode = mode]
            IN  /\ next.plugged = src.plugged /\ next.caps = src.caps /\ next.last = src.last
                /\ next.surprised = src.surprised /\ next.mode = mode
         /\ LET next == [src EXCEPT !.mode = mode, !.granted = src.req]
            IN  /\ next.plugged = src.plugged /\ next.caps = src.caps /\ next.last = src.last
                /\ next.surprised = src.surprised /\ next.mode = mode
         /\ LET next == [src EXCEPT !.mode = mode, !.last = NO_MSG_ID]
            IN  /\ next.plugged = src.plugged /\ next.caps = src.caps /\ next.last = NO_MSG_ID
                /\ next.surprised = src.surprised /\ next.mode = mode
BY Zenon DEF SourceStates

(* The steps of its protocol.                                              *)
LEMMA SourceStepEmits ==
  ASSUME TypeOK, SourceStep
  PROVE  ~SourceQuiet /\ \E m \in Messages : Emits(m)
<1>. src \in SourceStates
  BY Zenon DEF TypeOK, WorldTypeOK
<1>1. {"wait_req", "ps_rdy", "idle", "caps"} \subseteq SourceModes
  BY Zenon DEF SourceModes
<1>2. /\ {"SOURCE_CAP", "ACCEPT", "REJECT", "PS_RDY"} \subseteq MsgTypes /\ 0 \in 0..7
      /\ src.id \in 0..7 /\ src.caps \in Seq(Contracts) /\ (0 + 1) % 8 = 1
  <2>1. 0 \in 0..7 /\ (0 + 1) % 8 = 1
    BY SMTT(30)
  <2>. QED
    BY <2>1, SourceModeType, Zenon DEF MsgTypes
<1>3. CASE src.mode = "caps"
  <2>. DEFINE m == Msg("SOURCE_CAP", src.id, src.caps)
              next == [src EXCEPT !.mode = "wait_req"]
  <2>1. SourceSends(m, next)
    BY <1>3, Zenon DEF SourceStep
  <2>2. m \in Messages /\ next \in SourceStates
    BY <1>1, <1>2, MessageTypes, SourceModeType, ZenonT(60)
  <2>3. m.type = "SOURCE_CAP" /\ m.id = src.id /\ m.objs = src.caps
    BY Zenon DEF Msg
  <2>4. /\ next.plugged = src.plugged /\ next.caps = src.caps /\ next.last = src.last
        /\ next.surprised = src.surprised /\ next.mode = "wait_req"
    BY SourceUpdates, Zenon
  <2>. HIDE DEF m, next
  <2>. QED
    BY <1>3, <2>1, <2>2, <2>3, <2>4, SourceNext, Zenon DEF Emits, Waits, SourceQuiet
<1>4. CASE src.mode = "accept"
  <2>. DEFINE m == CntrlMsg("ACCEPT", src.id)
              next == [src EXCEPT !.mode = "ps_rdy"]
  <2>1. SourceSends(m, next)
    BY <1>4, Zenon DEF SourceStep
  <2>2. m \in Messages /\ next \in SourceStates
    BY <1>1, <1>2, MessageTypes, SourceModeType, ZenonT(60)
  <2>3. m.type = "ACCEPT"
    BY Zenon DEF CntrlMsg, Msg
  <2>4. /\ next.plugged = src.plugged /\ next.caps = src.caps /\ next.last = src.last
        /\ next.surprised = src.surprised
    BY SourceUpdates, Zenon
  <2>. HIDE DEF m, next
  <2>. QED
    BY <1>4, <2>1, <2>2, <2>3, <2>4, SourceNext, Zenon DEF Emits, Unanswered, SourceQuiet
<1>5. CASE src.mode = "reject"
  <2>. DEFINE m == CntrlMsg("REJECT", src.id)
              next == [src EXCEPT !.mode = "idle"]
  <2>1. SourceSends(m, next)
    BY <1>5, Zenon DEF SourceStep
  <2>2. m \in Messages /\ next \in SourceStates
    BY <1>1, <1>2, MessageTypes, SourceModeType, ZenonT(60)
  <2>3. m.type = "REJECT"
    BY Zenon DEF CntrlMsg, Msg
  <2>4. /\ next.plugged = src.plugged /\ next.caps = src.caps /\ next.last = src.last
        /\ next.surprised = src.surprised /\ next.mode = "idle"
    BY SourceUpdates, Zenon
  <2>. HIDE DEF m, next
  <2>. QED
    BY <1>5, <2>1, <2>2, <2>3, <2>4, SourceNext, Zenon DEF Emits, Waits, SourceQuiet
<1>6. CASE src.mode = "ps_rdy"
  <2>. DEFINE m == CntrlMsg("PS_RDY", src.id)
              next == [src EXCEPT !.mode = "idle", !.granted = src.req]
  <2>1. SourceSends(m, next)
    BY <1>6, Zenon DEF SourceStep
  <2>2. m \in Messages /\ next \in SourceStates
    BY <1>1, <1>2, MessageTypes, SourceModeType, ZenonT(60)
  <2>3. m.type = "PS_RDY"
    BY Zenon DEF CntrlMsg, Msg
  <2>4. /\ next.plugged = src.plugged /\ next.caps = src.caps /\ next.last = src.last
        /\ next.surprised = src.surprised
    BY SourceUpdates, Zenon
  <2>. HIDE DEF m, next
  <2>. QED
    BY <1>6, <2>1, <2>2, <2>3, <2>4, SourceNext, Zenon DEF Emits, Unanswered, SourceQuiet
<1>7. CASE src.mode = "reset"
  <2>. DEFINE m == CntrlMsg("ACCEPT", 0)
              next == [src EXCEPT !.mode = "caps"]
  <2>1. SourceSends(m, next)
    BY <1>7, Zenon DEF SourceStep
  <2>2. m \in Messages /\ next \in SourceStates
    BY <1>1, <1>2, MessageTypes, SourceModeType, ZenonT(60)
  <2>3. m.type = "ACCEPT" /\ m.id = 0
    BY Zenon DEF CntrlMsg, Msg
  <2>4. /\ next.plugged = src.plugged /\ next.caps = src.caps /\ next.last = src.last
        /\ next.surprised = src.surprised /\ next.mode = "caps"
    BY SourceUpdates, Zenon
  <2>. HIDE DEF m, next
  <2>. QED
    BY <1>2, <1>7, <2>1, <2>2, <2>3, <2>4, SourceNext, Zenon DEF Emits, Unanswered, SourceQuiet
<1>. QED
  BY <1>3, <1>4, <1>5, <1>6, <1>7, Zenon DEF SourceStep

(* What an idle source sends on its own, when all is quiet.                *)
LEMMA SourceExtraEmits ==
  ASSUME TypeOK, SourceExtra, "late" \notin Faults
  PROVE  Settled /\ SourceQuiet /\ \E m \in Messages : Emits(m)
<1>. src \in SourceStates
  BY Zenon DEF TypeOK, WorldTypeOK
<1>0. PICK type \in Unsolicited :
       CASE type = "SOFT_RESET" ->
              SourceSends(CntrlMsg(type, 0),
                          [src EXCEPT !.mode = "wait_accept", !.last = NO_MSG_ID])
         [] type = "SOURCE_CAP" ->
              SourceSends(Msg(type, src.id, src.caps), [src EXCEPT !.mode = "wait_req"])
         [] type = "VENDOR_DEFINED" ->
              SourceSends(Msg(type, src.id, <<NoContract>>), src)
         [] OTHER -> SourceSends(CntrlMsg(type, src.id), src)
  BY Zenon DEF SourceExtra
<1>1. Settled /\ SourceQuiet /\ src.mode = "idle"
  BY Zenon DEF SourceExtra, SourceQuiet
<1>2. /\ "wait_accept" \in SourceModes /\ "wait_req" \in SourceModes
      /\ type \in MsgTypes /\ type # "GOODCRC" /\ 0 \in 0..7 /\ <<NoContract>> \in Seq(Contracts)
  BY UnsolicitedAssumption, ConstantTypes, SMTT(30) DEF SourceModes
<1>3. /\ src.id \in 0..7 /\ src.caps \in Seq(Contracts)
      /\ [src EXCEPT !.mode = "wait_accept", !.last = NO_MSG_ID] \in SourceStates
      /\ [src EXCEPT !.mode = "wait_req"] \in SourceStates
  BY <1>2, SourceModeType, Zenon
<1>4. /\ CntrlMsg(type, 0) \in Messages /\ CntrlMsg(type, src.id) \in Messages
      /\ Msg(type, src.id, src.caps) \in Messages /\ Msg(type, src.id, <<NoContract>>) \in Messages
  BY <1>2, <1>3, MessageTypes, Zenon
<1>5. \E m \in Messages, next \in SourceStates :
        /\ SourceSends(m, next) /\ m.type = type
        /\ next.plugged = src.plugged /\ next.caps = src.caps
        /\ next.last \in {src.last, NO_MSG_ID} /\ next.surprised = src.surprised
        /\ type = "SOFT_RESET" => next.mode = "wait_accept" /\ next.last = NO_MSG_ID
        /\ type = "SOURCE_CAP" => next.mode = "wait_req"
        /\ type \notin {"SOFT_RESET", "SOURCE_CAP"} => next.mode = "idle"
  <2>1. CASE type = "SOFT_RESET"
    <3>. DEFINE next == [src EXCEPT !.mode = "wait_accept", !.last = NO_MSG_ID]
                m == CntrlMsg(type, 0)
    <3>1. SourceSends(m, next)
      BY <1>0, <2>1, Zenon
    <3>2. m \in Messages /\ m.type = type
      BY <1>4, Zenon DEF CntrlMsg, Msg
    <3>3. /\ next \in SourceStates /\ next.plugged = src.plugged /\ next.caps = src.caps
          /\ next.last = NO_MSG_ID /\ next.surprised = src.surprised /\ next.mode = "wait_accept"
      BY <1>3, SourceUpdates, Zenon
    <3>. HIDE DEF next, m
    <3>. QED
      BY <2>1, <3>1, <3>2, <3>3, Zenon
  <2>2. CASE type = "SOURCE_CAP"
    <3>. DEFINE next == [src EXCEPT !.mode = "wait_req"]
                m == Msg(type, src.id, src.caps)
    <3>1. SourceSends(m, next)
      BY <1>0, <2>2, Zenon
    <3>2. m \in Messages /\ m.type = type
      BY <1>4, Zenon DEF Msg
    <3>3. /\ next \in SourceStates /\ next.plugged = src.plugged /\ next.caps = src.caps
          /\ next.last = src.last /\ next.surprised = src.surprised /\ next.mode = "wait_req"
      BY <1>3, SourceUpdates, Zenon
    <3>. HIDE DEF next, m
    <3>. QED
      BY <2>2, <3>1, <3>2, <3>3, Zenon
  <2>3. CASE type = "VENDOR_DEFINED"
    <3>1. SourceSends(Msg(type, src.id, <<NoContract>>), src)
      BY <1>0, <2>3, Zenon
    <3>2. Msg(type, src.id, <<NoContract>>).type = type
      BY Zenon DEF Msg
    <3>. QED
      BY <1>1, <1>4, <2>3, <3>1, <3>2, Zenon
  <2>4. CASE type \notin {"SOFT_RESET", "SOURCE_CAP", "VENDOR_DEFINED"}
    <3>1. SourceSends(CntrlMsg(type, src.id), src)
      BY <1>0, <2>4, Zenon
    <3>2. CntrlMsg(type, src.id).type = type
      BY Zenon DEF CntrlMsg, Msg
    <3>. QED
      BY <1>1, <1>4, <2>4, <3>1, <3>2, Zenon
  <2>. QED
    BY <2>1, <2>2, <2>3, <2>4, Zenon
<1>6. PICK m \in Messages, next \in SourceStates :
        /\ SourceSends(m, next) /\ m.type = type
        /\ next.plugged = src.plugged /\ next.caps = src.caps
        /\ next.last \in {src.last, NO_MSG_ID} /\ next.surprised = src.surprised
        /\ type = "SOFT_RESET" => next.mode = "wait_accept" /\ next.last = NO_MSG_ID
        /\ type = "SOURCE_CAP" => next.mode = "wait_req"
        /\ type \notin {"SOFT_RESET", "SOURCE_CAP"} => next.mode = "idle"
  BY <1>5, Zenon
<1>7. Emits(m)
  <2>1. Waits(m)'
    BY <1>6, SourceNext, Zenon DEF Waits
  <2>. QED
    BY <1>1, <1>2, <1>6, <2>1, SourceNext, Zenon DEF Emits
<1>. QED
  BY <1>1, <1>7, Zenon

(* What the source hears.                                                  *)
LEMMA SourceHears ==
  ASSUME TypeOK, SourceReceives
  PROVE  /\ Head(tx_fifo) \in SinkMessages /\ Head(tx_fifo).id \in 0..7
         /\ src'.plugged /\ src'.caps = src.caps /\ src.caps # <<>>
         /\ src'.last = Head(tx_fifo).id
         /\ src'.surprised /\ ~src.surprised => Head(tx_fifo).type = "REQUEST" /\ src.mode # "wait_req"
         /\ Head(tx_fifo).type = "SOFT_RESET" => src'.mode = "reset"
<1>. DEFINE m == Head(tx_fifo)
            heard == [src EXCEPT !.last = m.id]
<1>0. m \in SinkMessages /\ src \in SourceStates /\ tx_fifo # <<>>
  BY TxShape, Zenon DEF SourceReceives, TypeOK, WorldTypeOK
<1>1. m.id \in 0..7
  BY <1>0, Zenon DEF SinkMessages, Messages
<1>2. src' \in SourceAfter(m) /\ src.plugged /\ src.caps # <<>>
  BY Zenon DEF SourceReceives
<1>. HIDE DEF m
<1>3. /\ heard.plugged = src.plugged /\ heard.caps = src.caps /\ heard.last = m.id
      /\ heard.surprised = src.surprised /\ heard.mode = src.mode /\ heard \in SourceStates
  BY <1>0, <1>1, Zenon DEF SourceStates
<1>. DEFINE Heard(s) == s.plugged = src.plugged /\ s.caps = src.caps /\ s.last = m.id
<1>4. ASSUME NEW mode
      PROVE  LET s == [heard EXCEPT !.mode = mode]
             IN  Heard(s) /\ s.surprised = src.surprised /\ s.mode = mode
  BY <1>3, Zenon DEF SourceStates
<1>5. ASSUME NEW mode, NEW req
      PROVE  LET s == [heard EXCEPT !.mode = mode, !.req = req]
             IN  Heard(s) /\ s.surprised = src.surprised
  BY <1>3, Zenon DEF SourceStates
<1>6. Heard([heard EXCEPT !.surprised = TRUE])
  BY <1>3, Zenon DEF SourceStates
<1>7. CASE m.type = "SOFT_RESET"
  <2>1. src' = [heard EXCEPT !.mode = "reset"]
    BY <1>2, <1>7, Zenon DEF SourceAfter
  <2>. QED
    BY <1>0, <1>1, <1>2, <1>4, <1>7, <2>1, Zenon DEF m
<1>8. CASE m.type # "SOFT_RESET" /\ m.id = src.last
  <2>1. src' = src
    BY <1>2, <1>8, Zenon DEF SourceAfter
  <2>. QED
    BY <1>0, <1>1, <1>2, <1>8, <2>1, Zenon DEF m
<1>9. CASE m.type = "REQUEST" /\ m.id # src.last
  <2>1. CASE src.mode = "wait_req"
    <3>1. PICK mode : src' = [heard EXCEPT !.mode = mode, !.req = m.objs[1]]
      BY <1>2, <1>9, <2>1, Zenon DEF SourceAfter
    <3>2. LET s == [heard EXCEPT !.mode = mode, !.req = m.objs[1]]
          IN  Heard(s) /\ s.surprised = src.surprised
      BY <1>5, Zenon
    <3>3. Heard(src') /\ src'.surprised = src.surprised
      BY <3>1, <3>2, Zenon
    <3>. QED
      BY <1>0, <1>1, <1>2, <1>9, <2>1, <3>3, Zenon DEF m
  <2>2. CASE src.mode # "wait_req"
    <3>1. src' = [heard EXCEPT !.surprised = TRUE]
      BY <1>2, <1>9, <2>2, Zenon DEF SourceAfter
    <3>. QED
      BY <1>0, <1>1, <1>2, <1>6, <1>9, <2>2, <3>1, Zenon DEF m
  <2>. QED
    BY <2>1, <2>2, Zenon
<1>10. CASE m.type = "ACCEPT" /\ m.id # src.last
  <2>1. src' = heard \/ src' = [heard EXCEPT !.mode = "caps"]
    BY <1>2, <1>10, ZenonT(60) DEF SourceAfter
  <2>2. Heard(src') /\ src'.surprised = src.surprised
    <3>1. CASE src' = heard
      BY <1>3, <3>1, Zenon
    <3>2. CASE src' = [heard EXCEPT !.mode = "caps"]
      BY <1>4, <3>2, Zenon
    <3>. QED
      BY <2>1, <3>1, <3>2, Zenon
  <2>. QED
    BY <1>0, <1>1, <1>2, <1>10, <2>2, Zenon DEF m
<1>11. CASE m.type = "GET_SOURCE_CAP" /\ m.id # src.last
  <2>1. src' = [heard EXCEPT !.mode = "caps"]
    BY <1>2, <1>11, ZenonT(60) DEF SourceAfter
  <2>. QED
    BY <1>0, <1>1, <1>2, <1>4, <1>11, <2>1, Zenon DEF m
<1>12. CASE m.type \notin {"SOFT_RESET", "REQUEST", "ACCEPT", "GET_SOURCE_CAP"} /\ m.id # src.last
  <2>1. src' = heard
    BY <1>2, <1>12, ZenonT(60) DEF SourceAfter
  <2>. QED
    BY <1>0, <1>1, <1>2, <1>3, <1>12, <2>1, Zenon DEF m
<1>. QED
  BY <1>7, <1>8, <1>9, <1>10, <1>11, <1>12, Zenon

-----------------------------------------------------------------------------
(* What a message of the source, and one of the driver, says of the        *)
(* contract.                                                               *)

(* A message of the source, with what it makes of the source's record.     *)
Speaks(m) ==
  /\ \/ rx_fifo' = Append(rx_fifo, m)
     \/ "dup" \in Faults /\ rx_fifo' = rx_fifo \o <<m, m>>
  /\ src'.id = (m.id + 1) % 8 /\ src'.req = src.req
  /\ src'.granted = IF src.mode = "ps_rdy" THEN src.req ELSE src.granted
  /\ \/ src.mode = "caps" /\ m.type = "SOURCE_CAP" /\ src'.mode = "wait_req"
     \/ src.mode = "accept" /\ m.type = "ACCEPT" /\ m.id = src.id /\ src'.mode = "ps_rdy"
     \/ src.mode = "reject" /\ m.type = "REJECT" /\ src'.mode = "idle"
     \/ src.mode = "ps_rdy" /\ m.type = "PS_RDY" /\ src'.mode = "idle"
     \/ src.mode = "reset" /\ m.type = "ACCEPT" /\ src'.mode = "caps"
     \/ /\ src.mode = "idle" /\ m.type \notin Unanswered /\ Settled
        /\ src'.mode = CASE m.type = "SOURCE_CAP" -> "wait_req"
                         [] m.type = "SOFT_RESET" -> "wait_accept"
                         [] OTHER -> "idle"
  /\ src.mode \in {"caps", "idle"} \/ LoopAtRest

(* What SourceSends makes of the rest of the record.                       *)
LEMMA SourceSaid ==
  ASSUME src \in SourceStates, NEW next \in SourceStates, NEW m \in Messages,
         SourceSends(m, next)
  PROVE  /\ src'.id = (m.id + 1) % 8 /\ src'.mode = next.mode
         /\ src'.req = next.req /\ src'.granted = next.granted
         /\ \/ rx_fifo' = Append(rx_fifo, m)
            \/ "dup" \in Faults /\ rx_fifo' = rx_fifo \o <<m, m>>
<1>1. src' = [next EXCEPT !.id = (m.id + 1) % 8]
  BY Zenon DEF SourceSends
<1>2. /\ src'.id = (m.id + 1) % 8 /\ src'.mode = next.mode
      /\ src'.req = next.req /\ src'.granted = next.granted
  BY <1>1, Zenon DEF SourceStates
<1>3. \/ rx_fifo' = Append(rx_fifo, m)
      \/ "dup" \in Faults /\ rx_fifo' = rx_fifo \o <<m, m>>
  BY Zenon DEF SourceSends
<1>. QED
  BY <1>2, <1>3, Zenon

(* What the three ways in which the source changes its record leave of it. *)
LEMMA SourceRecords ==
  ASSUME src \in SourceStates, NEW mode
  PROVE  /\ LET next == [src EXCEPT !.mode = mode]
            IN  next.mode = mode /\ next.req = src.req /\ next.granted = src.granted
         /\ LET next == [src EXCEPT !.mode = mode, !.granted = src.req]
            IN  next.mode = mode /\ next.req = src.req /\ next.granted = src.req
         /\ LET next == [src EXCEPT !.mode = mode, !.last = NO_MSG_ID]
            IN  next.mode = mode /\ next.req = src.req /\ next.granted = src.granted
BY Zenon DEF SourceStates

(* The steps of its protocol ...                                           *)
LEMMA SourceStepSpeaks ==
  ASSUME TypeOK, SourceStep, "late" \notin Faults
  PROVE  \E m \in SourceMessages : Speaks(m)
<1>. src \in SourceStates
  BY Zenon DEF TypeOK, WorldTypeOK
<1>. {"wait_req", "ps_rdy", "idle", "caps"} \subseteq SourceModes
  BY Zenon DEF SourceModes
<1>. /\ {"SOURCE_CAP", "ACCEPT", "REJECT", "PS_RDY"} \subseteq MsgTypes /\ 0 \in 0..7
     /\ src.id \in 0..7 /\ src.caps \in Seq(Contracts)
  <2>1. 0 \in 0..7
    BY SMTT(30)
  <2>. QED
    BY <2>1, SourceModeType, Zenon DEF MsgTypes
<1>0. src.mode = "caps" \/ LoopAtRest
  BY Zenon DEF SourceStep
<1>3. CASE src.mode = "caps"
  <2>. DEFINE m == Msg("SOURCE_CAP", src.id, src.caps)
              next == [src EXCEPT !.mode = "wait_req"]
  <2>1. SourceSends(m, next)
    BY <1>3, Zenon DEF SourceStep
  <2>2. m \in Messages /\ next \in SourceStates /\ m.type = "SOURCE_CAP"
    BY MessageTypes, SourceModeType, ZenonT(60) DEF Msg
  <2>3. next.mode = "wait_req" /\ next.req = src.req /\ next.granted = src.granted
    BY SourceRecords, Zenon
  <2>. HIDE DEF m, next
  <2>4. m \in SourceMessages
    BY <2>2, Zenon DEF SourceMessages, Unanswered
  <2>. QED
    BY <1>3, <2>1, <2>2, <2>3, <2>4, SourceSaid, Zenon DEF Speaks
<1>4. CASE src.mode = "accept"
  <2>. DEFINE m == CntrlMsg("ACCEPT", src.id)
              next == [src EXCEPT !.mode = "ps_rdy"]
  <2>1. SourceSends(m, next)
    BY <1>4, Zenon DEF SourceStep
  <2>2. m \in Messages /\ next \in SourceStates
    BY MessageTypes, SourceModeType, ZenonT(60)
  <2>3. next.mode = "ps_rdy" /\ next.req = src.req /\ next.granted = src.granted
    BY SourceRecords, Zenon
  <2>4. m.type = "ACCEPT" /\ m.id = src.id /\ m.objs = <<>>
    BY Zenon DEF CntrlMsg, Msg
  <2>. HIDE DEF m, next
  <2>5. m \in SourceMessages
    BY <2>2, <2>4, Zenon DEF SourceMessages
  <2>. QED
    BY <1>0, <1>4, <2>1, <2>2, <2>3, <2>4, <2>5, SourceSaid, Zenon DEF Speaks
<1>5. CASE src.mode = "reject"
  <2>. DEFINE m == CntrlMsg("REJECT", src.id)
              next == [src EXCEPT !.mode = "idle"]
  <2>1. SourceSends(m, next)
    BY <1>5, Zenon DEF SourceStep
  <2>2. m \in Messages /\ next \in SourceStates
    BY MessageTypes, SourceModeType, ZenonT(60)
  <2>3. next.mode = "idle" /\ next.req = src.req /\ next.granted = src.granted
    BY SourceRecords, Zenon
  <2>4. m.type = "REJECT" /\ m.objs = <<>>
    BY Zenon DEF CntrlMsg, Msg
  <2>. HIDE DEF m, next
  <2>5. m \in SourceMessages
    BY <2>2, <2>4, Zenon DEF SourceMessages
  <2>. QED
    BY <1>0, <1>5, <2>1, <2>2, <2>3, <2>4, <2>5, SourceSaid, Zenon DEF Speaks
<1>6. CASE src.mode = "ps_rdy"
  <2>. DEFINE m == CntrlMsg("PS_RDY", src.id)
              next == [src EXCEPT !.mode = "idle", !.granted = src.req]
  <2>1. SourceSends(m, next)
    BY <1>6, Zenon DEF SourceStep
  <2>2. m \in Messages /\ next \in SourceStates
    BY MessageTypes, SourceModeType, ZenonT(60)
  <2>3. next.mode = "idle" /\ next.req = src.req /\ next.granted = src.req
    BY SourceRecords, Zenon
  <2>4. m.type = "PS_RDY" /\ m.objs = <<>>
    BY Zenon DEF CntrlMsg, Msg
  <2>. HIDE DEF m, next
  <2>5. m \in SourceMessages
    BY <2>2, <2>4, Zenon DEF SourceMessages
  <2>. QED
    BY <1>0, <1>6, <2>1, <2>2, <2>3, <2>4, <2>5, SourceSaid, Zenon DEF Speaks
<1>7. CASE src.mode = "reset"
  <2>. DEFINE m == CntrlMsg("ACCEPT", 0)
              next == [src EXCEPT !.mode = "caps"]
  <2>1. SourceSends(m, next)
    BY <1>7, Zenon DEF SourceStep
  <2>2. m \in Messages /\ next \in SourceStates
    BY MessageTypes, SourceModeType, ZenonT(60)
  <2>3. next.mode = "caps" /\ next.req = src.req /\ next.granted = src.granted
    BY SourceRecords, Zenon
  <2>4. m.type = "ACCEPT" /\ m.objs = <<>>
    BY Zenon DEF CntrlMsg, Msg
  <2>. HIDE DEF m, next
  <2>5. m \in SourceMessages
    BY <2>2, <2>4, Zenon DEF SourceMessages
  <2>. QED
    BY <1>0, <1>7, <2>1, <2>2, <2>3, <2>4, <2>5, SourceSaid, Zenon DEF Speaks
<1>. QED
  BY <1>3, <1>4, <1>5, <1>6, <1>7, Zenon DEF SourceStep

(* ... and what it sends on its own.                                       *)
LEMMA SourceExtraSpeaks ==
  ASSUME TypeOK, SourceExtra, "late" \notin Faults, Unsolicited \intersect Unanswered = {}
  PROVE  \E m \in SourceMessages : Speaks(m)
<1>. src \in SourceStates
  BY Zenon DEF TypeOK, WorldTypeOK
<1>0. PICK type \in Unsolicited :
       CASE type = "SOFT_RESET" ->
              SourceSends(CntrlMsg(type, 0),
                          [src EXCEPT !.mode = "wait_accept", !.last = NO_MSG_ID])
         [] type = "SOURCE_CAP" ->
              SourceSends(Msg(type, src.id, src.caps), [src EXCEPT !.mode = "wait_req"])
         [] type = "VENDOR_DEFINED" ->
              SourceSends(Msg(type, src.id, <<NoContract>>), src)
         [] OTHER -> SourceSends(CntrlMsg(type, src.id), src)
  BY Zenon DEF SourceExtra
<1>. Settled /\ src.mode = "idle" /\ type \notin Unanswered
  BY Zenon DEF SourceExtra
<1>. DEFINE AfterIt == CASE type = "SOURCE_CAP" -> "wait_req"
                         [] type = "SOFT_RESET" -> "wait_accept"
                         [] OTHER -> "idle"
<1>. HIDE DEF AfterIt
<1>2. /\ "wait_accept" \in SourceModes /\ "wait_req" \in SourceModes
      /\ type \in MsgTypes /\ 0 \in 0..7 /\ <<NoContract>> \in Seq(Contracts)
  BY UnsolicitedAssumption, ConstantTypes, SMTT(30) DEF SourceModes
<1>3. /\ src.id \in 0..7 /\ src.caps \in Seq(Contracts)
      /\ [src EXCEPT !.mode = "wait_accept", !.last = NO_MSG_ID] \in SourceStates
      /\ [src EXCEPT !.mode = "wait_req"] \in SourceStates
  BY <1>2, SourceModeType, Zenon
<1>4. /\ CntrlMsg(type, 0) \in Messages /\ CntrlMsg(type, src.id) \in Messages
      /\ Msg(type, src.id, src.caps) \in Messages /\ Msg(type, src.id, <<NoContract>>) \in Messages
  BY <1>2, <1>3, MessageTypes, Zenon
<1>5. \E m \in Messages, next \in SourceStates :
        /\ SourceSends(m, next) /\ m.type = type
        /\ next.mode = AfterIt /\ next.req = src.req /\ next.granted = src.granted
  <2>1. CASE type = "SOFT_RESET"
    <3>. DEFINE next == [src EXCEPT !.mode = "wait_accept", !.last = NO_MSG_ID]
                m == CntrlMsg(type, 0)
    <3>1. SourceSends(m, next)
      BY <1>0, <2>1, Zenon
    <3>2. m \in Messages /\ m.type = type
      BY <1>4, Zenon DEF CntrlMsg, Msg
    <3>3. next \in SourceStates /\ next.mode = "wait_accept" /\ next.req = src.req /\ next.granted = src.granted
      BY <1>3, SourceRecords, Zenon
    <3>4. AfterIt = "wait_accept"
      BY <2>1, Zenon DEF AfterIt
    <3>. HIDE DEF next, m
    <3>. QED
      BY <3>1, <3>2, <3>3, <3>4, Zenon
  <2>2. CASE type = "SOURCE_CAP"
    <3>. DEFINE next == [src EXCEPT !.mode = "wait_req"]
                m == Msg(type, src.id, src.caps)
    <3>1. SourceSends(m, next)
      BY <1>0, <2>2, Zenon
    <3>2. m \in Messages /\ m.type = type
      BY <1>4, Zenon DEF Msg
    <3>3. next \in SourceStates /\ next.mode = "wait_req" /\ next.req = src.req /\ next.granted = src.granted
      BY <1>3, SourceRecords, Zenon
    <3>4. AfterIt = "wait_req"
      BY <2>2, Zenon DEF AfterIt
    <3>. HIDE DEF next, m
    <3>. QED
      BY <3>1, <3>2, <3>3, <3>4, Zenon
  <2>3. CASE type = "VENDOR_DEFINED"
    <3>1. SourceSends(Msg(type, src.id, <<NoContract>>), src)
      BY <1>0, <2>3, Zenon
    <3>2. Msg(type, src.id, <<NoContract>>).type = type
      BY Zenon DEF Msg
    <3>3. AfterIt = src.mode
      BY <2>3, SMTT(30) DEF AfterIt
    <3>. QED
      BY <1>4, <3>1, <3>2, <3>3, Zenon
  <2>4. CASE type \notin {"SOFT_RESET", "SOURCE_CAP", "VENDOR_DEFINED"}
    <3>1. SourceSends(CntrlMsg(type, src.id), src)
      BY <1>0, <2>4, Zenon
    <3>2. CntrlMsg(type, src.id).type = type
      BY Zenon DEF CntrlMsg, Msg
    <3>3. AfterIt = src.mode
      BY <2>4, SMTT(30) DEF AfterIt
    <3>. QED
      BY <1>4, <3>1, <3>2, <3>3, Zenon
  <2>. QED
    BY <2>1, <2>2, <2>3, <2>4, Zenon
<1>6. PICK m \in Messages, next \in SourceStates :
        /\ SourceSends(m, next) /\ m.type = type
        /\ next.mode = AfterIt /\ next.req = src.req /\ next.granted = src.granted
  BY <1>5, Zenon
<1>7. m \in SourceMessages
  BY <1>6, Zenon DEF SourceMessages
<1>8. src'.mode = AfterIt /\ src'.req = src.req /\ src'.granted = src.granted
  BY <1>6, SourceSaid, Zenon
<1>9. Speaks(m)
  BY <1>6, <1>8, SourceSaid, Zenon DEF Speaks, AfterIt
<1>. QED
  BY <1>7, <1>9, Zenon

(* What a message of the driver makes of the source's record.              *)
Hears(m) ==
  /\ src'.id = src.id /\ src'.granted = src.granted
  /\ \/ m.type = "SOFT_RESET" /\ src'.mode = "reset" /\ src'.req = src.req
     \/ /\ m.type = "REQUEST" /\ src.mode = "wait_req"
        /\ src'.mode \in {"accept", "reject"} /\ src'.req = m.objs[1]
     \/ m.type = "ACCEPT" /\ src.mode = "wait_accept" /\ src'.mode = "caps" /\ src'.req = src.req
     \/ m.type = "GET_SOURCE_CAP" /\ src'.mode = "caps" /\ src'.req = src.req
     \/ m.type # "SOFT_RESET" /\ src'.mode = src.mode /\ src'.req = src.req

(* Every message of the driver that the source takes is heard so.          *)
LEMMA SourceListens ==
  ASSUME TypeOK, SourceReceives
  PROVE  Hears(Head(tx_fifo))
<1>. DEFINE m == Head(tx_fifo)
            heard == [src EXCEPT !.last = m.id]
            Same(s) == s.id = src.id /\ s.granted = src.granted /\ s.req = src.req
<1>0. src \in SourceStates /\ src' \in SourceAfter(m)
  BY Zenon DEF SourceReceives, TypeOK, WorldTypeOK
<1>. HIDE DEF m
<1>3. Same(heard) /\ heard.mode = src.mode /\ heard = [heard EXCEPT !.last = m.id]
  BY <1>0, Zenon DEF SourceStates
<1>4. ASSUME NEW mode
      PROVE  LET s == [heard EXCEPT !.mode = mode] IN Same(s) /\ s.mode = mode
  BY <1>0, Zenon DEF SourceStates
<1>6. LET s == [heard EXCEPT !.surprised = TRUE] IN Same(s) /\ s.mode = src.mode
  BY <1>0, Zenon DEF SourceStates
<1>7. CASE m.type = "SOFT_RESET"
  <2>1. src' = [heard EXCEPT !.mode = "reset"]
    BY <1>0, <1>7, Zenon DEF SourceAfter
  <2>2. Same(src') /\ src'.mode = "reset"
    BY <1>4, <2>1, Zenon
  <2>. QED
    BY <1>7, <2>2, Zenon DEF m, Hears
<1>8. CASE m.type # "SOFT_RESET" /\ m.id = src.last
  <2>1. src' = src
    BY <1>0, <1>8, Zenon DEF SourceAfter
  <2>. QED
    BY <1>8, <2>1, Zenon DEF m, Hears
<1>9. CASE m.type = "REQUEST" /\ m.id # src.last
  <2>1. CASE src.mode = "wait_req"
    <3>. DEFINE modes == {"accept"} \union (IF "reject" \in Faults THEN {"reject"} ELSE {})
    <3>0. src' \in {[heard EXCEPT !.mode = mode, !.req = m.objs[1]] : mode \in modes}
      BY <1>0, <1>9, <2>1, Zenon DEF SourceAfter
    <3>1. PICK mode \in modes : src' = [heard EXCEPT !.mode = mode, !.req = m.objs[1]]
      BY <3>0, Zenon
    <3>a. mode \in {"accept", "reject"}
      BY Zenon
    <3>b. LET s == [heard EXCEPT !.mode = mode, !.req = m.objs[1]]
          IN  s.id = src.id /\ s.granted = src.granted /\ s.mode = mode /\ s.req = m.objs[1]
      BY <1>0, Zenon DEF SourceStates
    <3>2. /\ src'.id = src.id /\ src'.granted = src.granted
          /\ src'.mode = mode /\ src'.req = m.objs[1]
      BY <3>1, <3>b, Zenon
    <3>. QED
      BY <1>9, <2>1, <3>2, <3>a, Zenon DEF m, Hears
  <2>2. CASE src.mode # "wait_req"
    <3>1. src' = [heard EXCEPT !.surprised = TRUE]
      BY <1>0, <1>9, <2>2, Zenon DEF SourceAfter
    <3>2. Same(src') /\ src'.mode = src.mode
      BY <1>6, <3>1, Zenon
    <3>. QED
      BY <1>9, <3>2, Zenon DEF m, Hears
  <2>. QED
    BY <2>1, <2>2, Zenon
<1>10. CASE m.type = "ACCEPT" /\ m.id # src.last
  <2>1. CASE src.mode = "wait_accept"
    <3>1. src' = [heard EXCEPT !.mode = "caps"]
      BY <1>0, <1>10, <2>1, ZenonT(60) DEF SourceAfter
    <3>2. Same(src') /\ src'.mode = "caps"
      BY <1>4, <3>1, Zenon
    <3>. QED
      BY <1>10, <2>1, <3>2, Zenon DEF m, Hears
  <2>2. CASE src.mode # "wait_accept"
    <3>1. src' = heard
      BY <1>0, <1>10, <2>2, ZenonT(60) DEF SourceAfter
    <3>2. Same(src') /\ src'.mode = src.mode
      BY <1>3, <3>1, Zenon
    <3>. QED
      BY <1>10, <3>2, Zenon DEF m, Hears
  <2>. QED
    BY <2>1, <2>2, Zenon
<1>11. CASE m.type = "GET_SOURCE_CAP" /\ m.id # src.last
  <2>1. src' = [heard EXCEPT !.mode = "caps"]
    BY <1>0, <1>11, ZenonT(60) DEF SourceAfter
  <2>2. Same(src') /\ src'.mode = "caps"
    BY <1>4, <2>1, Zenon
  <2>. QED
    BY <1>11, <2>2, Zenon DEF m, Hears
<1>12. CASE m.type \notin {"SOFT_RESET", "REQUEST", "ACCEPT", "GET_SOURCE_CAP"} /\ m.id # src.last
  <2>1. src' = heard
    BY <1>0, <1>12, ZenonT(60) DEF SourceAfter
  <2>2. Same(src') /\ src'.mode = src.mode
    BY <1>3, <2>1, Zenon
  <2>. QED
    BY <1>12, <2>2, Zenon DEF m, Hears
<1>. QED
  BY <1>7, <1>8, <1>9, <1>10, <1>11, <1>12, Zenon

(* What handle_message makes of the contract.                              *)
TakenIn(m) ==
  \/ /\ m.type = "GOODCRC" \/ m.id = last_received_msg_id_
     /\ UNCHANGED <<state_, active_ams_, last_received_msg_id_, contractVars, expired, tx_fifo>>
  \/ /\ m.type # "GOODCRC" /\ m.id # last_received_msg_id_ /\ last_received_msg_id_' = m.id
     /\ \/ /\ m.type = "ACCEPT" /\ ~active_ams_
           /\ UNCHANGED <<state_, active_ams_, contractVars, expired, tx_fifo>>
        \/ /\ m.type = "ACCEPT" /\ active_ams_
           /\ accepted_contract_' = requested_contract_ /\ contract_timer_'
           /\ expired' = expired \ {"contract"} /\ state_' \in {state_, "TRANSITION"}
           /\ UNCHANGED <<active_ams_, requested_contract_, tx_fifo>>
        \/ /\ m.type = "PS_RDY" /\ state_' = "EXPLICIT_SPR_CONTRACT" /\ active_ams_' = FALSE
           /\ UNCHANGED <<contractVars, expired, tx_fifo>>
        \/ /\ m.type = "SOURCE_CAP" /\ active_ams_' = TRUE /\ expired' = expired \ {"ams"}
           /\ \E x \in SinkMessages :
                /\ tx_fifo' = Append(tx_fifo, x)
                /\ x.type = "REQUEST" /\ x.objs[1] = requested_contract_'
           /\ UNCHANGED <<state_, accepted_contract_, contract_timer_>>
        \/ /\ m.type \notin Unanswered
           /\ \/ tx_fifo' = tx_fifo
              \/ \E x \in SinkMessages :
                   /\ tx_fifo' = Append(tx_fifo, x)
                   /\ x.type \notin {"REQUEST", "SOFT_RESET", "GET_SOURCE_CAP"}
           /\ UNCHANGED <<state_, active_ams_, contractVars, expired>>

(* Case by case.                                                           *)
LEMMA MessageTakenIn ==
  ASSUME TypeOK, "i2c" \notin Faults, NEW m \in SourceMessages, handle_message(m)
  PROVE  TakenIn(m)
<1>. USE DEF contractVars, idVars, stateVars
<1>0. /\ m \in Messages /\ m.id \in 0..7 /\ m.objs \in Seq(Contracts) /\ m.type \in MsgTypes
      /\ PdTypeOK /\ (m.type \in Unanswered => m.objs = <<>>)
  BY Zenon DEF SourceMessages, Messages, TypeOK
<1>1. CASE m.type = "GOODCRC"
  <2>1. handle_goodcrc
    BY <1>0, <1>1, Zenon DEF handle_message, Unanswered
  <2>. QED
    BY <1>1, <2>1, Zenon DEF handle_goodcrc, TakenIn
<1>2. CASE m.type # "GOODCRC" /\ m.id = last_received_msg_id_
  <2>1. handle_duplicate
    BY <1>2, Zenon DEF handle_message
  <2>. QED
    BY <1>2, <2>1, Zenon DEF handle_duplicate, TakenIn
<1>3. CASE m.type # "GOODCRC" /\ m.id # last_received_msg_id_ /\ m.objs # <<>>
  <2>1. CASE m.type = "SOURCE_CAP"
    <3>1. handle_source_cap(m)
      BY <1>3, <2>1, Zenon DEF handle_message
    <3>. DEFINE x == Msg("REQUEST", NextId, <<requested_contract_'>>)
    <3>2. requested_contract_' \in Contracts
      BY <1>0, <3>1, RequestedContractType, Zenon DEF handle_source_cap
    <3>3. "REQUEST" \in MsgTypes /\ NextId \in 0..7
      BY <1>0, NextIdType, Zenon DEF MsgTypes
    <3>4. x \in SinkMessages
      BY <3>2, <3>3, MessageTypes, Zenon
    <3>5. x.type = "REQUEST" /\ x.objs = <<requested_contract_'>>
      BY Zenon DEF Msg
    <3>6. tx_fifo' = Append(tx_fifo, x)
      BY <3>1, Zenon DEF handle_source_cap, send_message
    <3>7. x.objs[1] = requested_contract_'
      BY <3>5, SMTT(30)
    <3>. HIDE DEF x
    <3>8. /\ last_received_msg_id_' = m.id /\ active_ams_' = TRUE /\ expired' = expired \ {"ams"}
          /\ UNCHANGED <<state_, accepted_contract_, contract_timer_>>
      BY <3>1, Zenon DEF handle_source_cap
    <3>. QED
      BY <1>3, <2>1, <3>4, <3>5, <3>6, <3>7, <3>8, Zenon DEF TakenIn
  <2>2. CASE m.type # "SOURCE_CAP"
    <3>1. handle_other_data(m)
      BY <1>3, <2>2, Zenon DEF handle_message
    <3>. QED
      BY <1>0, <1>3, <3>1, Zenon DEF handle_other_data, TakenIn
  <2>. QED
    BY <2>1, <2>2, Zenon
<1>4. CASE m.type # "GOODCRC" /\ m.id # last_received_msg_id_ /\ m.objs = <<>>
  <2>1. CASE m.type = "ACCEPT"
    <3>1. handle_accept(m)
      BY <1>4, <2>1, Zenon DEF handle_message
    <3>2. CASE active_ams_
      <4>1. /\ accepted_contract_' = requested_contract_ /\ contract_timer_'
            /\ expired' = expired \ {"contract"} /\ state_' \in {state_, "TRANSITION"}
            /\ last_received_msg_id_' = m.id
            /\ UNCHANGED <<active_ams_, requested_contract_, tx_fifo>>
        BY <3>1, <3>2, Zenon DEF handle_accept, set_state_
      <4>. QED
        BY <1>4, <2>1, <3>2, <4>1, Zenon DEF TakenIn
    <3>3. CASE ~active_ams_
      BY <1>4, <2>1, <3>1, <3>3, Zenon DEF handle_accept, TakenIn
    <3>. QED
      BY <3>2, <3>3, Zenon
  <2>2. CASE m.type = "PS_RDY"
    <3>1. handle_ps_rdy(m)
      BY <1>4, <2>2, Zenon DEF handle_message
    <3>. QED
      BY <1>4, <2>2, <3>1, Zenon DEF handle_ps_rdy, set_state_, TakenIn
  <2>3. CASE m.type = "SOFT_RESET"
    <3>1. handle_soft_reset_send(m)
      BY <1>4, <2>3, Zenon DEF handle_message
    <3>2. "ACCEPT" \in MsgTypes /\ 0 \in 0..7 /\ "ACCEPT" # "REQUEST"
      BY SMTT(30) DEF MsgTypes
    <3>3. CntrlMsg("ACCEPT", 0) \in SinkMessages
      BY <3>2, MessageTypes, Zenon
    <3>4. CntrlMsg("ACCEPT", 0).type \notin {"REQUEST", "SOFT_RESET", "GET_SOURCE_CAP"}
      BY Zenon DEF CntrlMsg, Msg
    <3>5. tx_fifo' = Append(tx_fifo, CntrlMsg("ACCEPT", 0))
      BY <3>1, Zenon DEF handle_soft_reset_send, send_message
    <3>6. /\ last_received_msg_id_' = m.id
          /\ UNCHANGED <<state_, active_ams_, contractVars, expired>>
      BY <3>1, Zenon DEF handle_soft_reset_send
    <3>. QED
      BY <1>4, <2>3, <3>3, <3>4, <3>5, <3>6, Zenon DEF TakenIn, Unanswered
  <2>4. CASE m.type \notin {"ACCEPT", "PS_RDY", "SOFT_RESET"}
    <3>1. handle_query(m)
      BY <1>4, <2>4, Zenon DEF handle_message
    <3>. DEFINE x == IF m.type = "GET_SINK_CAP" THEN Msg("SINK_CAP", NextId, <<SinkCap>>)
                     ELSE CntrlMsg("NOT_SUPPORTED", NextId)
    <3>2. "SINK_CAP" \in MsgTypes /\ "NOT_SUPPORTED" \in MsgTypes /\ "NOT_SUPPORTED" # "REQUEST"
          /\ NextId \in 0..7
      BY <1>0, NextIdType, Zenon DEF MsgTypes
    <3>3. x \in SinkMessages
      BY <3>2, MessageTypes, ConstantTypes, Zenon
    <3>4. x.type \notin {"REQUEST", "SOFT_RESET", "GET_SOURCE_CAP"}
      BY Zenon DEF CntrlMsg, Msg
    <3>5. tx_fifo' = Append(tx_fifo, x)
      BY <3>1, Zenon DEF handle_query, send_message
    <3>. HIDE DEF x
    <3>6. /\ last_received_msg_id_' = m.id
          /\ UNCHANGED <<state_, active_ams_, contractVars, expired>>
      BY <3>1, Zenon DEF handle_query
    <3>. QED
      BY <1>4, <2>4, <3>3, <3>4, <3>5, <3>6, Zenon DEF TakenIn, Unanswered
  <2>. QED
    BY <2>1, <2>2, <2>3, <2>4, Zenon
<1>. QED
  BY <1>1, <1>2, <1>3, <1>4, Zenon

(* The messages on their way are the source's.                             *)
LEMMA WireMessages ==
  /\ NoMsg \in SourceMessages
  /\ \A id \in 0..7 : CntrlMsg("GOODCRC", id) \in SourceMessages
<1>1. "NONE" \in MsgTypes /\ "GOODCRC" \in MsgTypes /\ 0 \in 0..7
  BY SMTT(30) DEF MsgTypes
<1>2. NoMsg \in Messages /\ \A id \in 0..7 : CntrlMsg("GOODCRC", id) \in Messages
  BY <1>1, MessageTypes, Zenon DEF NoMsg
<1>3. NoMsg.objs = <<>> /\ \A id \in 0..7 : CntrlMsg("GOODCRC", id).objs = <<>>
  BY Zenon DEF NoMsg, CntrlMsg, Msg
<1>. QED
  BY <1>2, <1>3, Zenon DEF SourceMessages

(* At power-up nothing is on its way.                                      *)
LEMMA WireInit == Init => WireInv
<1>1. Init => message_queue_ = <<>> /\ rx_fifo = <<>> /\ rmsg = NoMsg
  BY Zenon DEF Init, PowerUp
<1>. QED
  BY <1>1, WireMessages, SMTT(30) DEF WireInv

(* Adding to a sequence and taking from it.                                *)
LEMMA SeqSteps ==
  ASSUME NEW S, NEW q \in Seq(S)
  PROVE  /\ <<>> \in Seq(S)
         /\ \A m \in S : Append(q, m) \in Seq(S) /\ q \o <<m, m>> \in Seq(S)
         /\ q # <<>> => Head(q) \in S /\ Tail(q) \in Seq(S)
BY SMTT(30)

(* Only what the source said, and what the chip acknowledged, gets on its  *)
(* way.                                                                    *)
LEMMA WireStep ==
  ASSUME TypeOK, "late" \notin Faults, Unsolicited \intersect Unanswered = {}, WireInv, [Next]_vars
  PROVE  WireInv'
<1>. DEFINE S == SourceMessages
<1>0. /\ message_queue_ \in Seq(S) /\ rx_fifo \in Seq(S) /\ rmsg \in S
  BY Zenon DEF WireInv
<1>. HIDE DEF S
<1>a. /\ <<>> \in Seq(S)
      /\ \A m \in S : Append(rx_fifo, m) \in Seq(S) /\ rx_fifo \o <<m, m>> \in Seq(S)
      /\ rx_fifo # <<>> => Head(rx_fifo) \in S /\ Tail(rx_fifo) \in Seq(S)
  BY <1>0, SeqSteps, Zenon
<1>b. /\ Append(message_queue_, rmsg) \in Seq(S)
      /\ message_queue_ # <<>> => Tail(message_queue_) \in Seq(S)
  BY <1>0, SeqSteps, Zenon
<1>c. message_queue_' \in Seq(S) /\ rx_fifo' \in Seq(S) /\ rmsg' \in S => WireInv'
  BY Zenon DEF WireInv, S
<1>. USE <1>0
<1>1. CASE Aside
  <2>1. UNCHANGED <<message_queue_, rx_fifo>>
    BY <1>1, AsideKeeps, Zenon DEF flowVars
  <2>2. rmsg' = rmsg
    BY <1>1, LoopAsideKeeps, Zenon DEF Aside, ReaderAside, ReaderCrc, ReaderWake, ReaderStatus,
       Elapse, vars, taskVars
  <2>. QED
    BY <1>c, <2>1, <2>2, Zenon
<1>2. CASE Setup \/ LoopDetachReset \/ LoopReattachReset \/ LoopSoftReset \/ ReaderReset
  <2>1. UNCHANGED <<message_queue_, rmsg>> /\ (rx_fifo' = rx_fifo \/ rx_fifo' = <<>>)
    BY <1>2, Zenon DEF Setup, LoopDetachReset, LoopReattachReset, LoopSoftReset, ReaderReset,
       fusb_reset_, taskVars
  <2>. QED
    BY <1>a, <1>b, <1>c, <2>1, Zenon
<1>3. CASE LoopSpawn \/ LoopSend \/ TriggerCreate \/ TriggerSoftReset \/ Plug \/ Unplug \/ TxLost
  <2>1. UNCHANGED <<message_queue_, rmsg, rx_fifo>>
    BY <1>3, Zenon DEF LoopSpawn, LoopSend, TriggerCreate, TriggerSoftReset, Plug, Unplug, TxLost,
       taskVars, chipVars
  <2>. QED
    BY <1>c, <2>1, Zenon
<1>4. CASE TriggerReceive
  <2>1. /\ UNCHANGED <<rmsg, rx_fifo>> /\ message_queue_ # <<>>
        /\ message_queue_' = Tail(message_queue_)
    BY <1>4, Zenon DEF TriggerReceive, chipVars
  <2>. QED
    BY <1>a, <1>b, <1>c, <2>1, Zenon
<1>5. CASE ReaderDrain
  <2>1. /\ message_queue_' = message_queue_
        /\ rx_fifo = <<>> => UNCHANGED <<rx_fifo, rmsg>>
        /\ rx_fifo # <<>> => /\ rx_fifo' = Tail(rx_fifo)
                             /\ rmsg' = rmsg \/ rmsg' = Head(rx_fifo)
    BY <1>5, Zenon DEF ReaderDrain
  <2>. QED
    BY <1>a, <1>b, <1>c, <2>1, Zenon
<1>6. CASE ReaderEnqueue
  <2>1. /\ rx_fifo' = rx_fifo /\ rmsg' = NoMsg
        /\ message_queue_' = message_queue_ \/ message_queue_' = Append(message_queue_, rmsg)
    BY <1>6, Zenon DEF ReaderEnqueue, chipVars
  <2>. QED
    BY <1>a, <1>b, <1>c, <2>1, WireMessages, Zenon DEF S
<1>7. CASE SourceStep \/ SourceExtra
  <2>1. PICK m \in SourceMessages : Speaks(m)
    BY <1>7, SourceStepSpeaks, SourceExtraSpeaks, Zenon
  <2>2. rx_fifo' = Append(rx_fifo, m) \/ rx_fifo' = rx_fifo \o <<m, m>>
    BY <2>1, Zenon DEF Speaks
  <2>3. UNCHANGED <<message_queue_, rmsg>>
    BY <1>7, SourceRaisesIrq, Zenon DEF taskVars
  <2>. QED
    BY <1>a, <1>c, <2>1, <2>2, <2>3, Zenon DEF S
<1>8. CASE SourceReceives
  <2>1. /\ UNCHANGED <<message_queue_, rmsg>>
        /\ rx_fifo' = Append(rx_fifo, CntrlMsg("GOODCRC", Head(tx_fifo).id))
    BY <1>8, Zenon DEF SourceReceives, taskVars
  <2>2. Head(tx_fifo).id \in 0..7
    BY <1>8, SourceHears, Zenon
  <2>. QED
    BY <1>a, <1>c, <2>1, <2>2, WireMessages, Zenon DEF S
<1>9. CASE Reboot
  <2>1. message_queue_' = <<>> /\ rmsg' = NoMsg /\ rx_fifo' = rx_fifo
    BY <1>9, Zenon DEF Reboot
  <2>. QED
    BY <1>a, <1>b, <1>c, <2>1, WireMessages, Zenon DEF S
<1>. QED
  BY <1>1, <1>2, <1>3, <1>4, <1>5, <1>6, <1>7, <1>8, <1>9, StepKinds, Zenon

(* What follows for the pipe.                                              *)
LEMMA WirePipe ==
  ASSUME TypeOK, WireInv
  PROVE  /\ \A i \in 1..Len(Pipe) : Pipe[i] \in SourceMessages
         /\ Len(Pipe) \in Nat
<1>1. PipeShaped
  BY PipeShape, Zenon
<1>2. Held \in Seq(SourceMessages)
  BY SMTT(30) DEF Held, WireInv
<1>3. Pipe \in Seq(SourceMessages)
  BY <1>2, Joined, Zenon DEF Pipe, WireInv
<1>. QED
  BY <1>3, SeqShape, Zenon

(* A step that takes from the pipe: its head (q = 0), the message at q + 1 *)
(* or what is in the RX FIFO.                                              *)
Shrunk(q) ==
  /\ Len(Pipe') <= Len(Pipe)
  /\ \A i \in 1..Len(Pipe') :
       /\ i <= q => Pipe'[i] = Pipe[i]
       /\ i > q => i + 1 <= Len(Pipe) /\ Pipe'[i] = Pipe[i + 1]

(* The pipe is a sequence of messages, before a step and after it.         *)
LEMMA PipeLengths ==
  ASSUME TypeOK, TypeOK'
  PROVE  /\ Len(Pipe) \in Nat /\ Len(Pipe') \in Nat
         /\ \A i \in 1..Len(Pipe) : Pipe[i] \in Messages
BY PipeShapes, SMTT(30) DEF PipeShaped

(* Such a step brings in nothing new.                                      *)
LEMMA ShrunkTypes ==
  ASSUME TypeOK, TypeOK', NEW q \in Nat, Shrunk(q)
  PROVE  /\ \A type : InPipe(type)' => InPipe(type)
         /\ last_received_msg_id_' = last_received_msg_id_ /\ AcceptDue' => AcceptDue
         /\ OnlyGoodCrc => OnlyGoodCrc'
<1>. Len(Pipe) \in Nat /\ Len(Pipe') \in Nat
  BY PipeLengths, Zenon
<1>1. ASSUME NEW i \in 1..Len(Pipe')
      PROVE  \E j \in 1..Len(Pipe) : Pipe'[i] = Pipe[j]
  BY SMTT(30) DEF Shrunk
<1>2. \A type : InPipe(type)' => InPipe(type)
  BY <1>1, Zenon DEF InPipe
<1>3. last_received_msg_id_' = last_received_msg_id_ /\ AcceptDue' => AcceptDue
  BY <1>1, Zenon DEF AcceptDue
<1>4. OnlyGoodCrc => OnlyGoodCrc'
  BY <1>1, Zenon DEF OnlyGoodCrc
<1>. QED
  BY <1>2, <1>3, <1>4, Zenon

(* Acknowledges announce no contract, and an ACCEPT that is due is on its  *)
(* way.                                                                    *)
LEMMA QuietDue ==
  /\ OnlyGoodCrc => ~AcceptDue /\ ~InPipe("ACCEPT") /\ ~InPipe("PS_RDY") /\ ~InPipe("SOURCE_CAP")
  /\ OnlyGoodCrc' => ~AcceptDue' /\ ~InPipe("ACCEPT")' /\ ~InPipe("PS_RDY")' /\ ~InPipe("SOURCE_CAP")'
  /\ AcceptDue => InPipe("ACCEPT")
  /\ AcceptDue' => InPipe("ACCEPT")'
BY Zenon DEF OnlyGoodCrc, AcceptDue, InPipe

(* A source starts with its capabilities, if it speaks PD at all.          *)
LEMMA NewSource ==
  ASSUME NEW s \in Sources
  PROVE  s.plugged /\ s.mode \in {"off", "caps"}
<1>1. PICK caps \in SourceCaps, cc \in CcLines : s = PluggedSource(caps, cc)
  BY SMTT(30) DEF Sources
<1>. QED
  BY <1>1, Zenon DEF PluggedSource, NoSource
=============================================================================
