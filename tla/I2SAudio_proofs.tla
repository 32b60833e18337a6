-------------------------- MODULE I2SAudio_proofs --------------------------
(***************************************************************************)
(* Proofs about the I2S port and those who share it, for any speakers and  *)
(* number of listeners.  The microphone implements module Microphone,      *)
(* whatever fails.  The sending channel has one owner (OneOwner), the      *)
(* microphone reads a running channel (MicHasChannel), a task stops when it*)
(* was asked to (StopsAreAsked) and finishes when all was played           *)
(* (FinishLosesNothing), as long as the tasks keep InTime.                 *)
(***************************************************************************)
EXTENDS I2SAudio, TLAPS

(* Where the microphone's task is, seen from the states of loop().         *)
MicTaskInv ==
  /\ "TASK_STOPPED" \in mic_bits <=> mic_task = "stopped"
  /\ "TASK_RUNNING" \in mic_bits => mic_state_ = "STARTING" /\ mic_task # "begin"
  /\ "COMMAND_STOP" \in mic_bits => mic_state_ = "STOPPING"
  /\ mic_task = "none" => mic_bits = {}
  /\ mic_task = "begin" => mic_state_ = "STARTING"
  /\ mic_state_ = "STOPPED" => mic_task = "none"
  /\ mic_state_ \in {"RUNNING", "STOPPING"} => mic_task # "none"

MicTypeOK ==
  /\ mic_state_ \in {"STOPPED", "STARTING", "RUNNING", "STOPPING"} /\ listeners \in 0..MAX_LISTENERS
  /\ mic_bits \subseteq {"TASK_RUNNING", "TASK_STOPPED", "COMMAND_STOP"}
  /\ mic_task \in {"none", "begin", "run", "stopped"}

MicInv == MicTypeOK /\ MicTaskInv

-----------------------------------------------------------------------------
(* The outcomes of a call of loop().                                       *)

Creates ==
  /\ mic_task \in {"none", "stopped"} /\ (listeners > 0 \/ mic_state_ = "STARTING")
  /\ mic_state_' = "STARTING" /\ mic_bits' = {} /\ mic_task' \in {"none", "begin"}

Waits ==
  /\ mic_state_ = "STARTING" /\ "TASK_RUNNING" \notin mic_bits /\ mic_task # "stopped"
  /\ mic_state_' = "STARTING" /\ mic_bits' = mic_bits /\ mic_task' = mic_task

TaskWasRunning ==
  /\ listeners > 0 /\ mic_state_ = "STARTING" /\ mic_task = "run"
  /\ mic_state_' = "RUNNING" /\ mic_bits' = {} /\ mic_task' = mic_task

Stops ==
  /\ mic_state_ = "STOPPING" \/ (listeners = 0 /\ mic_state_ \in {"STARTING", "RUNNING"})
  /\ mic_task = "run"
  /\ mic_state_' = "STOPPING" /\ mic_bits' = {"COMMAND_STOP"} /\ mic_task' = mic_task

TaskHadEnded ==
  /\ listeners = 0 /\ mic_task = "stopped"
  /\ mic_state_' = "STOPPED" /\ mic_bits' = {} /\ mic_task' = "none"

GoesOn ==
  /\ (listeners > 0 /\ mic_state_ = "RUNNING") \/ (listeners = 0 /\ mic_state_ = "STOPPED")
  /\ mic_state_' = mic_state_ /\ mic_bits' = mic_bits /\ mic_task' = mic_task

Outcome == Creates \/ Waits \/ TaskWasRunning \/ Stops \/ TaskHadEnded \/ GoesOn

(* A start leaves the task it was given, or creates it when there is none. *)
LEMMA MicStartsTask ==
  ASSUME NEW p, NEW t, MicStarts(p, t)
  PROVE  mic_task' = t \/ (t = "none" /\ mic_task' = "begin")
  BY DEF MicStarts

(* Every call of loop() has one of the outcomes.                           *)
LEMMA LoopOutcome ==
  ASSUME MicInv, MicLoop
  PROVE  Outcome
  <1> DEFINE seen == Seen
             next == Wanted(seen.state)
  <1>t. /\ listeners \in Nat /\ mic_state_ \in {"STOPPED", "STARTING", "RUNNING", "STOPPING"}
        /\ mic_task \in {"none", "begin", "run", "stopped"}
        /\ mic_bits \subseteq {"TASK_RUNNING", "TASK_STOPPED", "COMMAND_STOP"}
    BY ListenersAssumption DEF MicInv, MicTypeOK
  <1>n. mic_state_' = next
    BY DEF MicLoop
  <1>b. mic_bits' = IF next = "STOPPING" THEN seen.bits \union {"COMMAND_STOP"} ELSE seen.bits
    BY DEF MicLoop
  <1>s. mic_task' = seen.task \/ (next = "STARTING" /\ seen.task = "none" /\ mic_task' = "begin")
    BY MicStartsTask DEF MicLoop
  <1>1. CASE "TASK_STOPPED" \in mic_bits
    <2>1. seen.state = "STOPPED" /\ seen.bits = {} /\ seen.task = "none"
      BY <1>1 DEF Seen
    <2>2. mic_task = "stopped"
      BY <1>1 DEF MicInv, MicTaskInv
    <2>3. CASE listeners > 0
      <3>1. next = "STARTING"
        BY <2>1, <2>3 DEF Wanted
      <3>2. Creates
        BY <3>1, <2>1, <2>2, <2>3, <1>n, <1>b, <1>s DEF Creates
      <3> QED BY <3>2 DEF Outcome
    <2>4. CASE listeners = 0
      <3>1. next = "STOPPED"
        BY <2>1, <2>4 DEF Wanted
      <3>2. TaskHadEnded
        BY Zenon, <3>1, <2>1, <2>2, <2>4, <1>n, <1>b, <1>s DEF TaskHadEnded
      <3> QED BY <3>2 DEF Outcome
    <2> QED BY <2>3, <2>4, <1>t
  <1>2. CASE "TASK_STOPPED" \notin mic_bits /\ "TASK_RUNNING" \in mic_bits
    <2>1. mic_state_ = "STARTING" /\ "COMMAND_STOP" \notin mic_bits /\ mic_task = "run"
      BY <1>2, <1>t DEF MicInv, MicTaskInv
    <2>2. mic_bits \ {"TASK_RUNNING"} = {}
      BY <1>2, <1>t, <2>1
    <2>3. seen.state = "RUNNING" /\ seen.bits = {} /\ seen.task = mic_task
      BY <1>2, <2>2 DEF Seen
    <2>4. CASE listeners > 0
      <3>1. next = "RUNNING"
        BY <2>3, <2>4 DEF Wanted
      <3>2. TaskWasRunning
        BY <3>1, <2>1, <2>3, <2>4, <1>n, <1>b, <1>s DEF TaskWasRunning
      <3> QED BY <3>2 DEF Outcome
    <2>5. CASE listeners = 0
      <3>1. next = "STOPPING"
        BY <2>3, <2>5 DEF Wanted
      <3>2. Stops
        BY <3>1, <2>1, <2>3, <2>5, <1>n, <1>b, <1>s DEF Stops
      <3> QED BY <3>2 DEF Outcome
    <2> QED BY <2>4, <2>5, <1>t
  <1>3. CASE "TASK_STOPPED" \notin mic_bits /\ "TASK_RUNNING" \notin mic_bits
    <2>1. mic_bits \ {"TASK_RUNNING"} = mic_bits
      BY <1>3
    <2>2. seen.state = mic_state_ /\ seen.bits = mic_bits /\ seen.task = mic_task
      BY <1>3, <2>1 DEF Seen
    <2>3. mic_task # "stopped"
      BY <1>3 DEF MicInv, MicTaskInv
    <2>4. CASE mic_state_ = "STARTING" \/ (mic_state_ = "STOPPED" /\ listeners > 0)
      <3>1. next = "STARTING"
        BY <2>2, <2>4, <1>t DEF Wanted
      <3>2. CASE mic_task = "none"
        <4>1. mic_bits = {}
          BY <3>2 DEF MicInv, MicTaskInv
        <4>2. Creates
          BY <4>1, <3>1, <3>2, <2>2, <2>4, <1>n, <1>b, <1>s DEF Creates
        <4> QED BY <4>2 DEF Outcome
      <3>3. CASE mic_task # "none"
        <4>1. mic_state_ = "STARTING"
          BY <3>3, <2>4 DEF MicInv, MicTaskInv
        <4>2. Waits
          BY Zenon, <4>1, <3>1, <3>3, <2>2, <2>3, <1>3, <1>n, <1>b, <1>s DEF Waits
        <4> QED BY <4>2 DEF Outcome
      <3> QED BY <3>2, <3>3
    <2>5. CASE (mic_state_ = "RUNNING" /\ listeners > 0) \/ (mic_state_ = "STOPPED" /\ listeners = 0)
      <3>1. next = mic_state_
        BY <2>2, <2>5 DEF Wanted
      <3>2. GoesOn
        BY Zenon, <3>1, <2>2, <2>5, <1>n, <1>b, <1>s DEF GoesOn
      <3> QED BY <3>2 DEF Outcome
    <2>6. CASE mic_state_ = "STOPPING" \/ (mic_state_ = "RUNNING" /\ listeners = 0)
      <3>1. next = "STOPPING"
        BY <2>2, <2>6, <1>t DEF Wanted
      <3>2. mic_task = "run"
        BY <2>3, <2>6, <1>t DEF MicInv, MicTaskInv
      <3>3. mic_bits \union {"COMMAND_STOP"} = {"COMMAND_STOP"}
        BY <1>3, <1>t, Zenon
      <3>4. Stops
        BY <3>1, <3>2, <3>3, <2>2, <2>6, <1>n, <1>b, <1>s DEF Stops
      <3> QED BY <3>4 DEF Outcome
    <2> QED BY <2>4, <2>5, <2>6, <1>t
  <1> QED BY <1>1, <1>2, <1>3

-----------------------------------------------------------------------------
(* A call of loop() keeps the invariant.                                   *)
LEMMA LoopKeepsInv ==
  ASSUME MicInv, MicLoop
  PROVE  MicInv'
  <1>o. Outcome
    BY LoopOutcome
  <1>u. listeners' = listeners
    BY DEF MicLoop
  <1>1. MicTypeOK'
    <2>1. mic_bits' \in {mic_bits, {}, {"COMMAND_STOP"}} /\ mic_task' \in {mic_task, "none", "begin"}
      BY <1>o DEF Outcome, Creates, Waits, TaskWasRunning, Stops, TaskHadEnded, GoesOn
    <2>2. mic_state_' \in {"STOPPED", "STARTING", "RUNNING", "STOPPING"}
      BY <1>o DEF Outcome, Creates, Waits, TaskWasRunning, Stops, TaskHadEnded, GoesOn, MicInv, MicTypeOK
    <2> QED BY <2>1, <2>2, <1>u DEF MicInv, MicTypeOK
  <1>2. MicTaskInv'
    <2>1. CASE Creates
      BY <2>1 DEF Creates, MicTaskInv
    <2>2. CASE Waits \/ GoesOn
      BY <2>2 DEF Waits, GoesOn, MicInv, MicTaskInv
    <2>3. CASE TaskWasRunning \/ Stops \/ TaskHadEnded
      BY <2>3 DEF TaskWasRunning, Stops, TaskHadEnded, MicTaskInv
    <2> QED BY <1>o, <2>1, <2>2, <2>3 DEF Outcome
  <1> QED BY <1>1, <1>2 DEF MicInv

(* So does every step.                                                     *)
LEMMA MicInvStep ==
  ASSUME MicInv, [Next]_vars
  PROVE  MicInv'
  <1>1. CASE ListenerStarts \/ ListenerStops
    <2>1. listeners' \in 0..MAX_LISTENERS
      BY <1>1, ListenersAssumption DEF ListenerStarts, ListenerStops, MicInv, MicTypeOK
    <2>2. UNCHANGED <<mic_state_, mic_bits, mic_task>>
      BY <1>1 DEF ListenerStarts, ListenerStops
    <2> QED BY <2>1, <2>2 DEF MicInv, MicTypeOK, MicTaskInv
  <1>2. CASE MicLoop
    BY <1>2, LoopKeepsInv
  <1>3. CASE MicTask
    <2>1. UNCHANGED <<mic_state_, listeners>>
      BY <1>3 DEF MicTask
    <2>2. CASE mic_task = "begin"
      BY Zenon, <1>3, <2>1, <2>2 DEF MicTask, MicInv, MicTypeOK, MicTaskInv
    <2>3. CASE mic_task = "run"
      BY Zenon, <1>3, <2>1, <2>3 DEF MicTask, MicInv, MicTypeOK, MicTaskInv
    <2> QED BY <1>3, <2>2, <2>3 DEF MicTask
  <1>4. CASE MicErrorEnds \/ OfSpeakers(SpeakerNext) \/ UNCHANGED vars
    <2>1. UNCHANGED <<mic_state_, mic_bits, mic_task, listeners>>
      BY <1>4 DEF MicErrorEnds, OfSpeakers, vars, micVars
    <2> QED BY <2>1 DEF MicInv, MicTypeOK, MicTaskInv
  <1> QED BY <1>1, <1>2, <1>3, <1>4 DEF Next

-----------------------------------------------------------------------------
(* The refinement, step by step.                                           *)
LEMMA LoopImplements ==
  ASSUME MicInv, MicLoop
  PROVE  AbstractMicrophone!Loop
  <1>o. Outcome
    BY LoopOutcome
  <1>u. listeners' = listeners
    BY DEF MicLoop
  <1>t. listeners \in Nat
    BY ListenersAssumption DEF MicInv, MicTypeOK
  <1>i. MicInv'
    BY LoopKeepsInv
  <1>1. mic_state_' \in AbstractMicrophone!MicStates /\ MicRecording' \in BOOLEAN
    BY <1>i DEF MicInv, MicTypeOK, AbstractMicrophone!MicStates, MicRecording
  <1>2. listeners > 0 => mic_state_' # "STOPPED" /\ (mic_state_' = "STOPPING" => mic_state_ = "STOPPING")
    BY <1>o, <1>t DEF Outcome, Creates, Waits, TaskWasRunning, Stops, TaskHadEnded, GoesOn
  <1>3. listeners = 0 => /\ mic_state_' # "RUNNING" /\ (mic_state_' = "STARTING" => mic_state_ = "STARTING")
                         /\ mic_state_ = "STOPPED" => mic_state_' = "STOPPED"
    <2>1. mic_state_ = "STOPPED" => mic_task = "none"
      BY DEF MicInv, MicTaskInv
    <2> QED BY <2>1, <1>o, <1>t DEF Outcome, Creates, Waits, TaskWasRunning, Stops, TaskHadEnded, GoesOn
  <1>4. mic_state_' = "RUNNING" => mic_state_ # "STOPPING"
    BY <1>o DEF Outcome, Creates, Waits, TaskWasRunning, Stops, TaskHadEnded, GoesOn
  <1>5. mic_state_' = "STOPPED" => ~MicRecording'
    BY <1>i DEF MicInv, MicTaskInv, MicRecording
  <1>6. MicRecording' /\ ~MicRecording => mic_state_' \in {"STARTING", "RUNNING"}
    BY <1>o DEF Outcome, Creates, Waits, TaskWasRunning, Stops, TaskHadEnded, GoesOn, MicRecording
  <1> QED BY <1>u, <1>1, <1>2, <1>3, <1>4, <1>5, <1>6 DEF AbstractMicrophone!Loop

(* Every step is one of module Microphone, or a stuttering step of it.     *)
LEMMA StepImplements ==
  ASSUME MicInv, [Next]_vars
  PROVE  [AbstractMicrophone!Next]_(AbstractMicrophone!micVars)
  <1> USE DEF AbstractMicrophone!micVars
  <1>1. CASE ListenerStarts
    <2>1. AbstractMicrophone!Start
      BY <1>1 DEF ListenerStarts, AbstractMicrophone!Start, MicRecording
    <2> QED BY <2>1 DEF AbstractMicrophone!Next
  <1>2. CASE ListenerStops
    <2>1. AbstractMicrophone!Stop
      BY <1>2 DEF ListenerStops, AbstractMicrophone!Stop, MicRecording
    <2> QED BY <2>1 DEF AbstractMicrophone!Next
  <1>3. CASE MicLoop
    BY <1>3, LoopImplements DEF AbstractMicrophone!Next
  <1>4. CASE MicTask
    <2>1. CASE mic_task = "begin"
      BY <1>4, <2>1 DEF MicTask, MicRecording
    <2>2. CASE mic_task = "run"
      <3>1. MicRecording = TRUE /\ MicRecording' = FALSE /\ UNCHANGED <<mic_state_, listeners>>
        BY <1>4, <2>2 DEF MicTask, MicRecording
      <3>2. AbstractMicrophone!Ends
        BY <3>1 DEF AbstractMicrophone!Ends
      <3> QED BY <3>2 DEF AbstractMicrophone!Next
    <2> QED BY <1>4, <2>1, <2>2 DEF MicTask
  <1>5. CASE MicErrorEnds \/ OfSpeakers(SpeakerNext) \/ UNCHANGED vars
    BY <1>5 DEF MicErrorEnds, OfSpeakers, vars, micVars, MicRecording
  <1> QED BY <1>1, <1>2, <1>3, <1>4, <1>5 DEF Next

(* The I2S microphone implements module Microphone, whatever the speakers, *)
(* the driver and the listeners do.                                        *)
THEOREM MicrophoneImplements == Spec => ImplementsMicrophone
  <1>1. Init => MicInv
    BY ListenersAssumption DEF Init, MicInv, MicTypeOK, MicTaskInv
  <1>2. MicInv /\ [Next]_vars => MicInv'
    BY MicInvStep
  <1>3. MicInv /\ [Next]_vars => [AbstractMicrophone!Next]_(AbstractMicrophone!micVars)
    BY StepImplements
  <1>4. Init => AbstractMicrophone!Init
    BY DEF Init, AbstractMicrophone!Init, MicRecording
  <1> QED BY <1>1, <1>2, <1>3, <1>4, PTL DEF Spec, ImplementsMicrophone, AbstractMicrophone!Spec

-----------------------------------------------------------------------------
(* The port.  The TX channel has a handle exactly as long as it exists.    *)
TxSound(p) ==
  /\ p.tx \in {"none", "READY", "RUNNING"}
  /\ p.tx # "none" <=> p.tx_handle_

(* As long as the driver does not fail, this is so of the RX channel too,  *)
(* and it never outlives the TX channel that shares its clocks.            *)
RxSound(p) ==
  /\ p.rx \in {"none", "READY", "RUNNING"}
  /\ p.rx # "none" <=> p.rx_handle_
  /\ p.rx_handle_ => p.tx_handle_

(* What allocating the channels may come to.                               *)
LEMMA InitDriverOutcome ==
  ASSUME NEW p \in Ports, faults \in 0..MaxFaults, NEW r \in init_driver_(p),
         p.tx = "none", ~p.tx_handle_
  PROVE  /\ r.port \in Ports /\ r.cost \in {0, 1} /\ r.cost <= faults
         /\ TxSound(r.port) /\ r.port.tx # "RUNNING"
         /\ r.ok => r.cost = 0 /\ r.port.tx = "READY" /\ r.port.rx = "READY" /\ r.port.rx_handle_
         /\ RxSound(p) /\ r.cost = 0 => r.ok
  <1> DEFINE ready == [p EXCEPT !.tx_handle_ = TRUE, !.rx_handle_ = TRUE,
                                !.tx = "READY", !.rx = "READY", !.on_sent = Nobody]
             noTx == [ready EXCEPT !.tx_handle_ = FALSE, !.tx = "none", !.rx = "REGISTER"]
             noRx == [ready EXCEPT !.rx_handle_ = FALSE, !.rx = "none"]
  <1>1. faults \in Nat
    BY SMTT(30), FaultsAssumption
  <1>2. \/ r = Failed(p) /\ p.rx # "none"
        \/ r = Ok(ready)
        \/ \E q \in {p, noTx, noRx} : r = [port |-> q, ok |-> FALSE, cost |-> 1] /\ faults > 0
    BY DEF init_driver_, Fails
  <1>3. CASE r = Failed(p) /\ p.rx # "none"
    BY SMTT(30), <1>1, <1>3 DEF Failed, TxSound, RxSound
  <1>4. CASE r = Ok(ready)
    <2>1. ready \in Ports /\ TxSound(ready) /\ ready.rx = "READY" /\ ready.rx_handle_
          /\ ready.tx = "READY"
      BY Zenon DEF TxSound, Ports, ChanStates
    <2> HIDE DEF ready
    <2> QED BY SMTT(30), <1>1, <1>4, <2>1 DEF Ok
  <1>5. ASSUME NEW q \in {p, noTx, noRx}, r = [port |-> q, ok |-> FALSE, cost |-> 1], faults > 0
        PROVE  q \in Ports /\ TxSound(q) /\ q.tx # "RUNNING"
    BY Zenon, <1>5 DEF TxSound, Ports, ChanStates
  <1>6. CASE \E q \in {p, noTx, noRx} : r = [port |-> q, ok |-> FALSE, cost |-> 1] /\ faults > 0
    <2>1. PICK q \in {p, noTx, noRx} : r = [port |-> q, ok |-> FALSE, cost |-> 1] /\ faults > 0
      BY Zenon, <1>6
    <2>2. q \in Ports /\ TxSound(q) /\ q.tx # "RUNNING"
      BY Zenon, <1>5, <2>1
    <2> HIDE DEF ready, noTx, noRx
    <2> QED BY SMTT(30), <1>1, <2>1, <2>2
  <1> QED BY <1>2, <1>3, <1>4, <1>6

(* Enabling a TX channel that is ready.                                    *)
LEMMA EnableTxOutcome ==
  ASSUME NEW p \in Ports, faults \in 0..MaxFaults, NEW r \in EnableTx(p),
         p.tx = "READY", p.tx_handle_
  PROVE  /\ r.port \in Ports /\ r.cost \in {0, 1} /\ r.cost <= faults
         /\ TxSound(r.port) /\ r.port.rx = p.rx /\ r.port.rx_handle_ = p.rx_handle_
         /\ r.ok => r.cost = 0 /\ r.port.tx = "RUNNING" /\ r.port.tx_handle_
         /\ ~r.ok => r.cost = 1 /\ r.port.tx # "RUNNING"
  <1> DEFINE on  == [p EXCEPT !.tx = "RUNNING"]
             off == [p EXCEPT !.tx_handle_ = FALSE, !.tx = "none", !.on_sent = Nobody]
  <1>1. faults \in Nat
    BY SMTT(30), FaultsAssumption
  <1>2. \/ r = Ok(on)
        \/ r = [port |-> off, ok |-> FALSE, cost |-> 1] /\ faults > 0
    BY DEF EnableTx, Fails
  <1>3. /\ on \in Ports /\ TxSound(on) /\ on.tx = "RUNNING" /\ on.tx_handle_
        /\ on.rx = p.rx /\ on.rx_handle_ = p.rx_handle_
    BY DEF TxSound, Ports, ChanStates
  <1>4. /\ off \in Ports /\ TxSound(off) /\ off.tx = "none"
        /\ off.rx = p.rx /\ off.rx_handle_ = p.rx_handle_
    BY Zenon DEF TxSound, Ports, ChanStates
  <1> HIDE DEF on, off
  <1> QED BY SMTT(30), <1>1, <1>2, <1>3, <1>4 DEF Ok

(* I2SAudioOut::start_i2s_channel on a channel that does not run: it fails *)
(* without a failure of the driver only after an earlier one.              *)
LEMMA StartTxOutcome ==
  ASSUME NEW p \in Ports, faults \in 0..MaxFaults, NEW r \in start_tx(p),
         TxSound(p), p.tx # "RUNNING"
  PROVE  /\ r.port \in Ports /\ r.cost \in {0, 1} /\ r.cost <= faults /\ TxSound(r.port)
         /\ r.ok => r.cost = 0 /\ r.port.tx = "RUNNING"
         /\ ~r.ok => r.port.tx # "RUNNING"
         /\ RxSound(p) /\ r.cost = 0 => r.ok /\ RxSound(r.port)
         /\ p.rx_handle_ => r.port.rx_handle_ /\ r.port.rx = p.rx
  <1>1. CASE p.tx_handle_
    <2>1. r \in EnableTx(p) /\ p.tx = "READY"
      BY <1>1 DEF start_tx, TxSound
    <2> QED BY SMTT(30), <1>1, <2>1, EnableTxOutcome DEF RxSound, TxSound
  <1>2. CASE ~p.tx_handle_ /\ p.rx_handle_
    <2>1. r = Failed(p)
      BY <1>2 DEF start_tx
    <2>2. faults \in Nat /\ ~RxSound(p)
      BY SMTT(30), <1>2, FaultsAssumption DEF RxSound
    <2> QED BY SMTT(30), <2>1, <2>2 DEF Failed
  <1>3. CASE ~p.tx_handle_ /\ ~p.rx_handle_
    <2>0. p.tx = "none"
      BY <1>3 DEF TxSound
    <2>1. PICK i \in init_driver_(p) : r \in IF i.ok THEN EnableTx(i.port) ELSE {i}
      BY <1>3 DEF start_tx
    <2>2. CASE i.ok
      <3>1. /\ i.port \in Ports /\ TxSound(i.port) /\ i.port.tx = "READY"
            /\ i.port.rx = "READY" /\ i.port.rx_handle_
        BY <2>0, <2>2, <1>3, InitDriverOutcome
      <3>2. r \in EnableTx(i.port) /\ i.port.tx_handle_
        BY Zenon, <2>1, <2>2, <3>1 DEF TxSound
      <3> QED BY SMTT(30), <1>3, <3>1, <3>2, EnableTxOutcome DEF RxSound, TxSound
    <2>3. CASE ~i.ok
      <3>1. r = i
        BY <2>1, <2>3
      <3> QED BY <3>1, <2>0, <2>3, <1>3, InitDriverOutcome
    <2> QED BY <2>2, <2>3
  <1> QED BY <1>1, <1>2, <1>3

(* I2SAudioOut::stop_i2s_channel                                           *)
LEMMA StopTxOutcome ==
  ASSUME NEW p \in Ports, TxSound(p)
  PROVE  /\ stop_tx(p) \in Ports /\ TxSound(stop_tx(p)) /\ stop_tx(p).tx # "RUNNING"
         /\ stop_tx(p).rx = p.rx /\ stop_tx(p).rx_handle_ = p.rx_handle_
         /\ RxSound(p) => RxSound(stop_tx(p))
  <1>1. CASE p.tx # "RUNNING"
    BY <1>1 DEF stop_tx
  <1>2. CASE p.tx = "RUNNING" /\ p.rx_handle_
    <2>1. stop_tx(p) = [p EXCEPT !.tx = "READY"]
      BY <1>2 DEF stop_tx, TxSound
    <2> QED BY Zenon, <1>2, <2>1 DEF TxSound, RxSound, Ports, ChanStates
  <1>3. CASE p.tx = "RUNNING" /\ ~p.rx_handle_
    <2>1. stop_tx(p) = [p EXCEPT !.tx_handle_ = FALSE, !.tx = "none", !.on_sent = Nobody]
      BY <1>3 DEF stop_tx, TxSound
    <2> QED BY Zenon, <1>3, <2>1 DEF TxSound, RxSound, Ports, ChanStates
  <1> QED BY <1>1, <1>2, <1>3

(* Enabling an RX channel leaves the TX channel alone.                     *)
LEMMA EnableRxOutcome ==
  ASSUME NEW p \in Ports, faults \in 0..MaxFaults, NEW r \in EnableRx(p)
  PROVE  /\ r.port \in Ports /\ r.cost \in {0, 1} /\ r.cost <= faults
         /\ r.port.tx = p.tx /\ r.port.tx_handle_ = p.tx_handle_ /\ r.port.on_sent = p.on_sent
         /\ r.port.rx_handle_ = p.rx_handle_
         /\ r.ok => r.cost = 0
         /\ p.rx = "READY" /\ r.cost = 0 => r.ok /\ r.port.rx = "RUNNING"
         /\ p.rx = "RUNNING" => ~r.ok /\ r.port.rx = "RUNNING"
  <1> DEFINE on   == [p EXCEPT !.rx = "RUNNING"]
             gone == [p EXCEPT !.rx = "freed"]
  <1>1. faults \in Nat
    BY SMTT(30), FaultsAssumption
  <1>2. /\ on \in Ports /\ on.rx = "RUNNING" /\ on.tx = p.tx /\ on.tx_handle_ = p.tx_handle_
        /\ on.on_sent = p.on_sent /\ on.rx_handle_ = p.rx_handle_
    BY DEF Ports, ChanStates
  <1>3. /\ gone \in Ports /\ gone.tx = p.tx /\ gone.tx_handle_ = p.tx_handle_
        /\ gone.on_sent = p.on_sent /\ gone.rx_handle_ = p.rx_handle_
    BY DEF Ports, ChanStates
  <1>4. \/ p.rx = "READY" /\ r = Ok(on)
        \/ p.rx = "READY" /\ r = [port |-> gone, ok |-> FALSE, cost |-> 1] /\ faults > 0
        \/ p.rx = "RUNNING" /\ r = Failed(p)
        \/ p.rx \notin {"READY", "RUNNING"} /\ r \in {Ok(p), Failed(p), Failed(gone)}
    BY DEF EnableRx, Fails, UseAfterFree
  <1> HIDE DEF on, gone
  <1> QED BY SMTT(30), <1>1, <1>2, <1>3, <1>4 DEF Ok, Failed

(* I2SAudioIn::start_i2s_channel                                           *)
LEMMA StartRxOutcome ==
  ASSUME NEW p \in Ports, faults \in 0..MaxFaults, NEW r \in start_rx(p), TxSound(p)
  PROVE  /\ r.port \in Ports /\ r.cost \in {0, 1} /\ r.cost <= faults /\ TxSound(r.port)
         /\ r.ok => r.cost = 0
         /\ p.tx_handle_ => r.port.tx = p.tx /\ r.port.on_sent = p.on_sent
         /\ ~p.tx_handle_ => r.port.tx # "RUNNING"
         /\ RxSound(p) /\ r.cost = 0 =>
              RxSound(r.port) /\ (r.ok => r.port.rx = "RUNNING")
  <1>1. CASE p.rx_handle_
    <2>1. r \in EnableRx(p)
      BY <1>1 DEF start_rx
    <2>2. p.tx # "RUNNING" \/ p.tx_handle_
      BY DEF TxSound
    <2> QED BY <1>1, <2>1, <2>2, EnableRxOutcome DEF RxSound, TxSound
  <1>2. CASE ~p.rx_handle_ /\ p.tx_handle_
    <2>1. r = Failed(p)
      BY <1>2 DEF start_rx
    <2>2. faults \in Nat
      BY SMTT(30), FaultsAssumption
    <2> QED BY SMTT(30), <1>2, <2>1, <2>2 DEF Failed
  <1>3. CASE ~p.tx_handle_ /\ ~p.rx_handle_
    <2>0. p.tx = "none"
      BY <1>3 DEF TxSound
    <2>1. PICK i \in init_driver_(p) : r \in IF i.ok THEN EnableRx(i.port) ELSE {i}
      BY <1>3 DEF start_rx
    <2>2. CASE i.ok
      <3>1. /\ i.port \in Ports /\ TxSound(i.port) /\ i.port.tx = "READY"
            /\ i.port.rx = "READY" /\ i.port.rx_handle_
        BY Zenon, <2>0, <2>2, <1>3, InitDriverOutcome
      <3>2. r \in EnableRx(i.port) /\ i.port.tx_handle_
        BY Zenon, <2>1, <2>2, <3>1 DEF TxSound
      <3> QED BY <1>3, <3>1, <3>2, EnableRxOutcome DEF RxSound, TxSound
    <2>3. CASE ~i.ok
      <3>1. r = i
        BY <2>1, <2>3
      <3> QED BY <3>1, <2>0, <2>3, <1>3, InitDriverOutcome
    <2> QED BY <2>2, <2>3
  <1> QED BY Zenon, <1>1, <1>2, <1>3

(* I2SAudioIn::stop_i2s_channel                                            *)
LEMMA StopRxOutcome ==
  ASSUME NEW p \in Ports
  PROVE  /\ stop_rx(p) \in Ports /\ stop_rx(p).tx = p.tx /\ stop_rx(p).tx_handle_ = p.tx_handle_
         /\ stop_rx(p).on_sent = p.on_sent
         /\ RxSound(p) => RxSound(stop_rx(p))
  <1>1. CASE ~p.rx_handle_ \/ p.rx # "RUNNING"
    BY <1>1 DEF stop_rx
  <1>2. CASE p.rx_handle_ /\ p.rx = "RUNNING"
    <2>1. stop_rx(p) = [p EXCEPT !.rx_handle_ = FALSE, !.rx = "none"]
      BY <1>2 DEF stop_rx
    <2> QED BY Zenon, <1>2, <2>1 DEF RxSound, Ports, ChanStates
  <1> QED BY <1>1, <1>2

-----------------------------------------------------------------------------
(* The speakers.  The types that the argument needs.                       *)
TaskLocals ==
  [pc : {"none", "begin", "run", "freeing", "failing", "stopped"},
   graceful : BOOLEAN, underflow : BOOLEAN, buf : BOOLEAN, frames : Nat]

Places ==
  [at : {"idle", "flags", "stopped", "reset", "start"},
   who : Speakers \union {Nobody}, seen : SUBSET SpeakerEventGroupBits]

Types ==
  /\ port \in Ports /\ faults \in 0..MaxFaults
  /\ state_ \in [Speakers -> SpeakerStates]
  /\ bits \in [Speakers -> SUBSET SpeakerEventGroupBits]
  /\ task \in [Speakers -> TaskLocals]
  /\ ring \in [Speakers -> Nat] /\ events \in [Speakers -> Nat] /\ dma \in Nat
  /\ main \in Places /\ client \in {"ready", "start", "command", "lock"}
  /\ route \in Speakers /\ switching \in Speakers \union {Nobody}
  /\ stop_asked \in [Speakers -> BOOLEAN]

(* The bits that say where a task is, and the one that asks for a new one. *)
TaskBits == {"TASK_RUNNING", "TASK_STOPPING", "TASK_STOPPED"}
Signals  == TaskBits \union {"COMMAND_START"}

Alive(s) == task[s].pc # "none"

(* The task ends and loop() has noticed that: it has taken TASK_STOPPING.  *)
Noticed(s) ==
  task[s].pc \in {"freeing", "failing", "stopped"} /\ "TASK_STOPPING" \notin bits[s]

(* Where loop() of s is.                                                   *)
At(s) == IF main.who = s THEN main.at ELSE "idle"

(* The bits of a task tell how far it is.                                  *)
BitsTell(s) ==
  /\ task[s].pc \in {"none", "begin"} => \A b \in TaskBits : b \notin bits[s]
  /\ task[s].pc = "begin" => state_[s] = "STARTING"
  /\ task[s].pc = "run" => "TASK_STOPPING" \notin bits[s]
  /\ "TASK_STOPPED" \in bits[s] <=> task[s].pc = "stopped"
  /\ "TASK_RUNNING" \in bits[s] => state_[s] = "STARTING" /\ ~Noticed(s)

(* Only the speaker the router plays on is active.  While its task works,  *)
(* and until loop() has noticed that it ends, state_ keeps start() from    *)
(* asking for another one; after that, a start() can get in.               *)
OnlyRouteIsActive(s) ==
  /\ s # route => ~Alive(s) /\ state_[s] = "STOPPED"
  /\ Alive(s) /\ ~Noticed(s) =>
       /\ state_[s] \in {"STARTING", "RUNNING"} /\ client \notin {"start", "command"}
       /\ "COMMAND_START" \notin bits[s]
  /\ Noticed(s) => state_[s] \in {"STARTING", "STOPPING"}

(* What loop() has read is still true when it acts on it.                  *)
SeenHolds(s) ==
  /\ At(s) = "flags" =>
       /\ \A b \in Signals : b \in main.seen => b \in bits[s]
       /\ "TASK_STOPPING" \in main.seen /\ "TASK_RUNNING" \in bits[s] => "TASK_RUNNING" \in main.seen
       /\ "TASK_STOPPED" \in main.seen /\ "TASK_STOPPING" \in bits[s] => "TASK_STOPPING" \in main.seen
       /\ Noticed(s) => "TASK_STOPPED" \in main.seen
  /\ At(s) = "stopped" => task[s].pc = "stopped" /\ Noticed(s)
  /\ At(s) = "reset" => ~Alive(s)
  /\ At(s) = "start" /\ Alive(s) => "COMMAND_START" \notin main.seen

(* A start() that is under way found a speaker that does not play.         *)
ClientInv ==
  /\ client \in {"start", "command"} => switching = Nobody
  /\ client = "start" => state_[route] \notin {"STARTING", "RUNNING"}

SpeakerInv(s) == BitsTell(s) /\ OnlyRouteIsActive(s) /\ SeenHolds(s)

LifeInv == ClientInv /\ \A s \in Speakers : SpeakerInv(s)

(* The channel runs exactly while there is a task.                         *)
PortInv ==
  /\ TxSound(port)
  /\ \A s \in Speakers : Alive(s) => port.tx = "RUNNING"
  /\ port.tx = "RUNNING" => \E s \in Speakers : Alive(s)

OwnerInv == Types /\ LifeInv /\ PortInv

-----------------------------------------------------------------------------
(* The budget of failures is a natural number that never grows past its    *)
(* bound, and the port is one.                                             *)
LEMMA FaultBounds ==
  ASSUME Types
  PROVE  faults \in Nat /\ MaxFaults \in Nat /\ faults \in 0..MaxFaults /\ port \in Ports
  <1>1. faults \in 0..MaxFaults /\ port \in Ports
    BY Zenon DEF Types
  <1>2. faults \in Nat
    BY SMTT(30), <1>1, FaultsAssumption
  <1> QED BY Zenon, <1>1, <1>2, FaultsAssumption

(* A main loop that is idle is at no place of any speaker's loop().        *)
LEMMA IdleLoop ==
  ASSUME NEW s \in Speakers, main = Idle
  PROVE  At(s) = "idle"
  BY Zenon, SpeakersAssumption DEF At, Idle

(* The same after a step.                                                  *)
LEMMA IdleLoopNext ==
  ASSUME NEW s \in Speakers, main' = Idle
  PROVE  At(s)' = "idle"
  BY Zenon, SpeakersAssumption DEF At, Idle

(* A step that changes nothing of what concerns a speaker.                 *)
LEMMA Untouched ==
  ASSUME NEW s \in Speakers, SpeakerInv(s),
         task'[s].pc = task[s].pc, state_'[s] = state_[s], route' = route,
         \A b \in Signals : b \in bits'[s] <=> b \in bits[s],
         client' \in {"start", "command"} => client \in {"start", "command"},
         At(s)' = At(s), At(s) # "idle" => main'.seen = main.seen
  PROVE  SpeakerInv(s)'
  BY Zenon DEF SpeakerInv, BitsTell, OnlyRouteIsActive, SeenHolds, Alive, Noticed, Signals, TaskBits

(* The client's task: start() gets in only where it may.                   *)
LEMMA ClientLife ==
  ASSUME OwnerInv, ClientStep
  PROVE  LifeInv'
  <1>t. Types
    BY Zenon DEF OwnerInv
  <1>c. ClientInv
    BY Zenon DEF OwnerInv, LifeInv
  <1>i. ASSUME NEW t \in Speakers PROVE SpeakerInv(t)
    BY Zenon DEF OwnerInv, LifeInv
  <1>1. CASE PlayStarts
    <2>1. ClientInv'
      BY Zenon, <1>c, <1>1 DEF PlayStarts, ClientInv, speakerVars
    <2>2. ASSUME NEW s \in Speakers PROVE SpeakerInv(s)'
      <3>1. SpeakerInv(s)
        BY Zenon, <1>i
      <3>2. Alive(s) => s = route
        BY Zenon, <3>1 DEF SpeakerInv, OnlyRouteIsActive
      <3>3. ~(Alive(s) /\ ~Noticed(s))
        BY Zenon, <1>1, <3>1, <3>2 DEF PlayStarts, SpeakerInv, OnlyRouteIsActive
      <3>4. UNCHANGED <<task, state_, bits, route, main>>
        BY Zenon, <1>1 DEF PlayStarts, speakerVars
      <3> QED BY Zenon, <3>1, <3>3, <3>4 DEF SpeakerInv, BitsTell, OnlyRouteIsActive, SeenHolds, Alive, Noticed, At
    <2> QED BY Zenon, <2>1, <2>2 DEF LifeInv
  <1>2. CASE StartWritesState
    <2>0. /\ client = "start" /\ client' = "command" /\ UNCHANGED <<task, bits, route, main, switching>>
          /\ state_'[route] = "STARTING" /\ \A s \in Speakers : s # route => state_'[s] = state_[s]
      BY Zenon, <1>2, <1>t DEF StartWritesState, SetState, Types
    <2>1. ClientInv'
      BY Zenon, <1>c, <2>0 DEF ClientInv
    <2>2. ASSUME NEW s \in Speakers PROVE SpeakerInv(s)'
      <3>1. SpeakerInv(s)
        BY Zenon, <1>i
      <3>2. CASE s = route
        BY Zenon, <2>0, <3>1, <3>2 DEF SpeakerInv, BitsTell, OnlyRouteIsActive, SeenHolds, Alive, Noticed, At
      <3>3. CASE s # route
        BY Zenon, <2>0, <3>1, <3>3 DEF SpeakerInv, BitsTell, OnlyRouteIsActive, SeenHolds, Alive, Noticed, At
      <3> QED BY Zenon, <3>2, <3>3
    <2> QED BY Zenon, <2>1, <2>2 DEF LifeInv
  <1>3. CASE StartCommands
    <2>0. /\ client = "command" /\ client' = "ready" /\ UNCHANGED <<task, state_, route, main, switching>>
          /\ bits'[route] = bits[route] \union {"COMMAND_START"}
          /\ \A s \in Speakers : s # route => bits'[s] = bits[s]
      BY Zenon, <1>3, <1>t DEF StartCommands, SetBits, Types
    <2>1. ClientInv'
      BY Zenon, <1>c, <2>0 DEF ClientInv
    <2>2. ASSUME NEW s \in Speakers PROVE SpeakerInv(s)'
      <3>1. SpeakerInv(s)
        BY Zenon, <1>i
      <3>2. CASE s = route
        BY Zenon, <2>0, <3>1, <3>2 DEF SpeakerInv, BitsTell, OnlyRouteIsActive, SeenHolds, Alive, Noticed, At,
                                Signals, TaskBits
      <3>3. CASE s # route
        BY Zenon, <2>0, <3>1, <3>3 DEF SpeakerInv, BitsTell, OnlyRouteIsActive, SeenHolds, Alive, Noticed, At
      <3> QED BY Zenon, <3>2, <3>3
    <2> QED BY Zenon, <2>1, <2>2 DEF LifeInv
  <1>4. CASE PlayWrites \/ HasBufferedData
    <2>0. /\ UNCHANGED <<task, state_, bits, route, main, switching>>
          /\ client' \notin {"start", "command"}
      BY Zenon, <1>4 DEF PlayWrites, HasBufferedData, speakerVars
    <2>1. ClientInv'
      BY Zenon, <1>c, <2>0 DEF ClientInv
    <2>2. ASSUME NEW s \in Speakers PROVE SpeakerInv(s)'
      BY Zenon, <1>i, <2>0, Untouched DEF At
    <2> QED BY Zenon, <2>1, <2>2 DEF LifeInv
  <1> QED BY Zenon, <1>1, <1>2, <1>3, <1>4 DEF ClientStep

(* The calls from the main loop, the router, and the interrupt.            *)
LEMMA UserLife ==
  ASSUME OwnerInv, UserStops \/ UserPauses \/ SwitchBegins \/ SwitchEnds \/ DmaSent
  PROVE  LifeInv'
  <1>t. Types
    BY Zenon DEF OwnerInv
  <1>c. ClientInv
    BY Zenon DEF OwnerInv, LifeInv
  <1>i. ASSUME NEW t \in Speakers PROVE SpeakerInv(t)
    BY Zenon DEF OwnerInv, LifeInv
  <1>1. CASE UserStops \/ UserPauses \/ SwitchBegins \/ DmaSent
    <2>1. /\ UNCHANGED <<task, state_, route, main, client>>
          /\ switching' = switching \/ client = "ready"
      BY Zenon, <1>1 DEF UserStops, UserPauses, SwitchBegins, DmaSent
    <2>2. ASSUME NEW s \in Speakers, NEW b \in Signals PROVE b \in bits'[s] <=> b \in bits[s]
      <3>1. b \notin {"COMMAND_STOP", "COMMAND_STOP_GRACEFULLY", "ERR_DROPPED_EVENT"}
        BY Zenon DEF Signals, TaskBits
      <3>2. CASE UNCHANGED bits
        BY Zenon, <3>2
      <3>3. ASSUME NEW r \in Speakers,
                   NEW x \in SUBSET {"COMMAND_STOP", "COMMAND_STOP_GRACEFULLY", "ERR_DROPPED_EVENT"},
                   bits' = [bits EXCEPT ![r] = @ \union x]
            PROVE  b \in bits'[s] <=> b \in bits[s]
        BY Zenon, <3>1, <3>3, <1>t DEF Types
      <3>4. CASE UserStops \/ UserPauses \/ SwitchBegins
        BY Zenon, <3>2, <3>3, <3>4, <1>t DEF UserStops, UserPauses, SwitchBegins, stop_, SetBits, Types
      <3>5. CASE DmaSent
        <4>1. port.on_sent \in Speakers \union {Nobody}
          BY Zenon, <1>t DEF Types, Ports
        <4>2. \/ UNCHANGED bits
              \/ /\ port.on_sent \in Speakers
                 /\ bits' = [bits EXCEPT ![port.on_sent] = @ \union {"ERR_DROPPED_EVENT", "COMMAND_STOP"}]
          BY Zenon, <3>5, <4>1 DEF DmaSent, SetBits
        <4> QED BY Zenon, <3>2, <3>3, <4>2
      <3> QED BY Zenon, <1>1, <3>4, <3>5
    <2>3. ASSUME NEW s \in Speakers PROVE SpeakerInv(s)'
      BY Zenon, <1>i, <2>1, <2>2, Untouched DEF At
    <2>4. ClientInv'
      BY Zenon, <1>c, <2>1 DEF ClientInv
    <2> QED BY Zenon, <2>3, <2>4 DEF LifeInv
  <1>2. CASE SwitchEnds
    <2>1. /\ UNCHANGED <<task, state_, bits, main, client>> /\ switching # Nobody /\ switching' = Nobody
          /\ state_[route] = "STOPPED"
      BY Zenon, <1>2 DEF SwitchEnds, speakerVars
    <2>2. client \notin {"start", "command"}
      BY Zenon, <1>c, <2>1 DEF ClientInv
    <2>3. ASSUME NEW s \in Speakers PROVE SpeakerInv(s)'
      <3>1. SpeakerInv(s)
        BY Zenon, <1>i
      <3>2. ~Alive(s) /\ state_[s] = "STOPPED"
        BY Zenon, <3>1, <2>1 DEF SpeakerInv, OnlyRouteIsActive
      <3> QED BY Zenon, <3>1, <3>2, <2>1 DEF SpeakerInv, BitsTell, OnlyRouteIsActive, SeenHolds, Alive, Noticed, At
    <2>4. ClientInv'
      BY Zenon, <1>c, <2>1, <2>2 DEF ClientInv
    <2> QED BY Zenon, <2>3, <2>4 DEF LifeInv
  <1> QED BY Zenon, <1>1, <1>2

(* The documented timing: a task gets from TASK_STOPPING to TASK_STOPPED,  *)
(* and reports TASK_RUNNING, between two calls of loop() and empties its   *)
(* queue in time; loop() does not fall between the two instructions with   *)
(* which start() writes state_ and sets COMMAND_START.                     *)
InTime == "slow" \notin Faults /\ "race" \notin Faults

(* What the last part of loop() does: it starts a task or fails to, when   *)
(* COMMAND_START is due, and else only clears a read error bit.            *)
LoopStarts(s) ==
  /\ main' = Idle /\ UNCHANGED <<client, route, switching>>
  /\ StartDue(s) => /\ ~Alive(s) /\ s = route /\ client \notin {"start", "command"}
                    /\ "COMMAND_START" \notin bits'[s] /\ port.tx # "RUNNING"
  /\ \A t \in Speakers : \A b \in TaskBits : b \in bits'[t] <=> b \in bits[t]
  /\ \A t \in Speakers \ {s} : bits'[t] = bits[t]
  /\ ~StartDue(s) => bits'[s] = bits[s] \ (main.seen \intersect {"ERR_ESP_NO_MEM"})
  /\ \/ UNCHANGED <<task, state_>> /\ ~StartDue(s)
     \/ UNCHANGED state_ /\ StartDue(s) /\ task' = [task EXCEPT ![s] = Task("begin")]
     \/ UNCHANGED task /\ StartDue(s) /\ state_' = [state_ EXCEPT ![s] = "STOPPED"]

(* The last part of loop(): a task is created only where there is none.    *)
LEMMA LoopStartOutcome ==
  ASSUME InTime, OwnerInv, NEW s \in Speakers, LoopStart(s)
  PROVE  LoopStarts(s)
  <1>t. Types /\ ClientInv /\ SpeakerInv(s) /\ PortInv /\ \A t \in Speakers : SpeakerInv(t)
    BY Zenon DEF OwnerInv, LifeInv
  <1>1. main' = Idle /\ UNCHANGED <<client, route, switching>>
    BY Zenon DEF LoopStart
  <1>2. ASSUME StartDue(s)
        PROVE  ~Alive(s) /\ s = route /\ client \notin {"start", "command"} /\ port.tx # "RUNNING"
    <2>1. At(s) = "start"
      BY Zenon DEF LoopStart, At
    <2>2. ~Alive(s)
      BY Zenon, <1>t, <1>2, <2>1 DEF SpeakerInv, SeenHolds, StartDue
    <2>3. s = route
      BY Zenon, <1>t, <1>2 DEF SpeakerInv, OnlyRouteIsActive, StartDue
    <2>4. client \notin {"start", "command"}
      BY Zenon, <1>t, <1>2, <2>3 DEF ClientInv, StartDue, LoopStart, InTime
    <2>5. port.tx # "RUNNING"
      BY Zenon, <1>t, <2>2, <2>3 DEF PortInv, SpeakerInv, OnlyRouteIsActive
    <2> QED BY Zenon, <2>2, <2>3, <2>4, <2>5
  <1>3. /\ \A t \in Speakers : \A b \in TaskBits : b \in bits'[t] <=> b \in bits[t]
        /\ \A t \in Speakers \ {s} : bits'[t] = bits[t]
        /\ StartDue(s) => "COMMAND_START" \notin bits'[s]
        /\ ~StartDue(s) => bits'[s] = bits[s] \ (main.seen \intersect {"ERR_ESP_NO_MEM"})
    <2>1. CASE StartDue(s)
      <3>1. bits' = [bits EXCEPT ![s] = @ \ ((main.seen \intersect {"ERR_ESP_NO_MEM"}) \union {"COMMAND_START"})]
        BY Zenon, <2>1 DEF LoopStart
      <3> QED BY Zenon, <2>1, <3>1, <1>t DEF TaskBits, Types
    <2>2. CASE ~StartDue(s)
      <3>1. bits' = [bits EXCEPT ![s] = @ \ ((main.seen \intersect {"ERR_ESP_NO_MEM"}) \union {})]
        BY Zenon, <2>2 DEF LoopStart
      <3> QED BY Zenon, <2>2, <3>1, <1>t DEF TaskBits, Types
    <2> QED BY Zenon, <2>1, <2>2
  <1>4. \/ UNCHANGED <<task, state_>> /\ ~StartDue(s)
        \/ UNCHANGED state_ /\ StartDue(s) /\ task' = [task EXCEPT ![s] = Task("begin")]
        \/ UNCHANGED task /\ StartDue(s) /\ state_' = [state_ EXCEPT ![s] = "STOPPED"]
    <2>1. CASE StartDue(s)
      <3>1. PICK r \in start_tx(port) : IF r.ok THEN DriverStarted(s, r.port) ELSE DriverFailed(s, r)
        BY Zenon, <2>1 DEF LoopStart
      <3> QED BY Zenon, <2>1, <3>1, <1>2 DEF DriverStarted, DriverFailed, SetState, Alive
    <2>2. CASE ~StartDue(s)
      BY Zenon, <2>2 DEF LoopStart
    <2> QED BY Zenon, <2>1, <2>2
  <1> QED BY Zenon, <1>1, <1>2, <1>3, <1>4 DEF LoopStarts

(* The first part of loop(): the state follows the task, and the bits that *)
(* were read of it are taken.                                              *)
LEMMA LoopFlagsLife ==
  ASSUME OwnerInv, NEW s \in Speakers, LoopFlags(s)
  PROVE  LifeInv'
  <1>t. Types /\ ClientInv /\ SpeakerInv(s) /\ \A t \in Speakers : SpeakerInv(t)
    BY Zenon DEF OwnerInv, LifeInv
  <1>1. /\ UNCHANGED <<task, client, route, switching>> /\ main.at = "flags" /\ main.who = s
        /\ main'.who = s /\ main'.seen = main.seen
        /\ main'.at = IF "TASK_STOPPED" \in main.seen THEN "stopped" ELSE "start"
        /\ state_'[s] = IF "TASK_STOPPING" \in main.seen THEN "STOPPING"
                        ELSE IF "TASK_RUNNING" \in main.seen THEN "RUNNING" ELSE state_[s]
        /\ \A t \in Speakers : t # s => bits'[t] = bits[t] /\ state_'[t] = state_[t]
    BY Zenon, <1>t DEF LoopFlags, clientVars, Types, Places
  <1>2. /\ "TASK_RUNNING" \in bits'[s] <=> "TASK_RUNNING" \in bits[s] /\ "TASK_RUNNING" \notin main.seen
        /\ "TASK_STOPPING" \in bits'[s] <=> "TASK_STOPPING" \in bits[s] /\ "TASK_STOPPING" \notin main.seen
        /\ "TASK_STOPPED" \in bits'[s] <=> "TASK_STOPPED" \in bits[s]
        /\ "COMMAND_START" \in bits'[s] <=> "COMMAND_START" \in bits[s]
    BY Zenon, <1>t DEF LoopFlags, Types
  <1>3. At(s) = "flags" /\ At(s)' = main'.at
    BY Zenon, <1>1 DEF At
  <1>4. /\ \A b \in Signals : b \in main.seen => b \in bits[s]
        /\ "TASK_STOPPING" \in main.seen /\ "TASK_RUNNING" \in bits[s] => "TASK_RUNNING" \in main.seen
        /\ "TASK_STOPPED" \in main.seen /\ "TASK_STOPPING" \in bits[s] => "TASK_STOPPING" \in main.seen
        /\ Noticed(s) => "TASK_STOPPED" \in main.seen
    BY Zenon, <1>t, <1>3 DEF SpeakerInv, SeenHolds
  <1>5. BitsTell(s) /\ OnlyRouteIsActive(s)
    BY Zenon, <1>t DEF SpeakerInv
  <1>p. task[s].pc \in {"none", "begin", "run", "freeing", "failing", "stopped"}
    BY Zenon, <1>t DEF Types, TaskLocals
  <1> USE DEF Signals, TaskBits, Alive, Noticed
  <1>6. SpeakerInv(s)' /\ (client = "start" => state_'[route] \notin {"STARTING", "RUNNING"})
    <2>1. CASE "TASK_STOPPING" \in main.seen
      <3>1. task[s].pc \in {"freeing", "failing", "stopped"} /\ "COMMAND_START" \notin main.seen
            /\ s = route /\ client # "start"
        BY Zenon, <1>4, <1>5, <1>p, <2>1 DEF BitsTell, OnlyRouteIsActive
      <3>2. BitsTell(s)' /\ OnlyRouteIsActive(s)'
        BY Zenon, <1>1, <1>2, <1>4, <1>5, <2>1, <3>1 DEF BitsTell, OnlyRouteIsActive
      <3>3. SeenHolds(s)'
        BY Zenon, <1>1, <1>2, <1>3, <1>4, <1>5, <2>1, <3>1 DEF SeenHolds, BitsTell
      <3> QED BY Zenon, <3>1, <3>2, <3>3 DEF SpeakerInv
    <2>2. CASE "TASK_STOPPING" \notin main.seen /\ "TASK_RUNNING" \in main.seen
      <3>1. /\ Alive(s) /\ ~Noticed(s) /\ "COMMAND_START" \notin main.seen
            /\ s = route /\ client # "start"
        BY Zenon, <1>4, <1>5, <1>p, <2>2 DEF BitsTell, OnlyRouteIsActive
      <3>2. "TASK_STOPPED" \notin main.seen
        BY Zenon, <1>4, <1>5, <2>2, <3>1 DEF BitsTell
      <3>3. BitsTell(s)' /\ OnlyRouteIsActive(s)'
        BY Zenon, <1>1, <1>2, <1>4, <1>5, <2>2, <3>1 DEF BitsTell, OnlyRouteIsActive
      <3>4. SeenHolds(s)'
        BY Zenon, <1>1, <1>2, <1>3, <3>1, <3>2 DEF SeenHolds
      <3> QED BY Zenon, <3>1, <3>3, <3>4 DEF SpeakerInv
    <2>3. CASE "TASK_STOPPING" \notin main.seen /\ "TASK_RUNNING" \notin main.seen
      <3>1. BitsTell(s)' /\ OnlyRouteIsActive(s)'
        BY Zenon, <1>1, <1>2, <1>5, <2>3 DEF BitsTell, OnlyRouteIsActive
      <3>2. "TASK_STOPPED" \in main.seen => task[s].pc = "stopped" /\ "TASK_STOPPING" \notin bits[s]
        BY Zenon, <1>4, <1>5, <2>3 DEF BitsTell
      <3>3. "TASK_STOPPED" \notin main.seen /\ Alive(s) => "COMMAND_START" \notin main.seen
        BY Zenon, <1>4, <1>5, <2>3 DEF OnlyRouteIsActive
      <3>4. SeenHolds(s)'
        BY Zenon, <1>1, <1>2, <1>3, <2>3, <3>2, <3>3 DEF SeenHolds
      <3>5. state_'[s] = state_[s] /\ state_'[route] = state_[route]
        BY Zenon, <1>1, <1>t, <2>3 DEF Types
      <3> QED BY Zenon, <1>t, <3>1, <3>4, <3>5 DEF SpeakerInv, ClientInv
    <2> QED BY Zenon, <2>1, <2>2, <2>3
  <1>7. ASSUME NEW t \in Speakers PROVE SpeakerInv(t)'
    <2>1. CASE t # s
      <3>1. At(t) = "idle" /\ At(t)' = "idle"
        BY Zenon, <1>1, <2>1 DEF At
      <3> QED BY Zenon, <1>t, <3>1, <1>1, <2>1, Untouched
    <2> QED BY Zenon, <2>1, <1>6
  <1>8. ClientInv'
    BY Zenon, <1>t, <1>1, <1>6 DEF ClientInv
  <1> QED BY Zenon, <1>7, <1>8 DEF LifeInv

(* loop() of a speaker.                                                    *)
LEMMA LoopLife ==
  ASSUME InTime, OwnerInv, NEW s \in Speakers, SpeakerLoop(s)
  PROVE  LifeInv'
  <1>t. Types
    BY Zenon DEF OwnerInv
  <1>c. ClientInv
    BY Zenon DEF OwnerInv, LifeInv
  <1>i. ASSUME NEW t \in Speakers PROVE SpeakerInv(t)
    BY Zenon DEF OwnerInv, LifeInv
  <1>s. SpeakerInv(s)
    BY Zenon, <1>i
  <1>n. s # Nobody
    BY Zenon, SpeakersAssumption
  <1>1. CASE LoopReads(s)
    <2>1. /\ UNCHANGED <<task, state_, bits, client, route, switching>> /\ main = Idle
          /\ main' = [at |-> "flags", who |-> s, seen |-> bits[s]]
      BY Zenon, <1>1 DEF LoopReads, speakerVars, clientVars
    <2>2. Noticed(s) => "TASK_STOPPED" \in bits[s]
      BY Zenon, <1>1, <1>s DEF LoopReads, LoopDue, InTime, Noticed, SpeakerInv, BitsTell
    <2>3. ASSUME NEW t \in Speakers PROVE SpeakerInv(t)'
      <3>1. SpeakerInv(t)
        BY Zenon, <1>i
      <3>2. CASE t = s
        <4>1. At(s)' = "flags" /\ main'.seen = bits[s]
          BY Zenon, <2>1 DEF At
        <4> QED BY Zenon, <4>1, <3>1, <3>2, <2>1, <2>2 DEF SpeakerInv, BitsTell, OnlyRouteIsActive, SeenHolds, Alive, Noticed
      <3>3. CASE t # s
        <4>1. At(t) = "idle" /\ At(t)' = "idle"
          BY Zenon, <2>1, <3>3 DEF At, Idle
        <4> QED BY Zenon, <4>1, <3>1, <2>1, Untouched
      <3> QED BY Zenon, <3>2, <3>3
    <2>4. ClientInv'
      BY Zenon, <1>c, <2>1 DEF ClientInv
    <2> QED BY Zenon, <2>3, <2>4 DEF LifeInv
  <1>2. CASE LoopFlags(s)
    BY Zenon, <1>2, LoopFlagsLife
  <1>3. CASE LoopStopped(s)
    <2>1. /\ UNCHANGED <<state_, client, route, switching>> /\ main.at = "stopped" /\ main.who = s
          /\ main'.who = s /\ main'.seen = main.seen /\ main'.at = "reset"
          /\ bits'[s] = {} /\ task'[s].pc = "none"
          /\ \A t \in Speakers : t # s => bits'[t] = bits[t] /\ task'[t] = task[t]
      BY Zenon, <1>3, <1>t DEF LoopStopped, clientVars, Types, Places, Task
    <2>2. At(s) = "stopped" /\ At(s)' = "reset"
      BY Zenon, <2>1 DEF At
    <2>3. SpeakerInv(s)'
      BY Zenon, <2>1, <2>2, <1>s DEF SpeakerInv, BitsTell, OnlyRouteIsActive, SeenHolds, Alive, Noticed, TaskBits
    <2>4. ASSUME NEW t \in Speakers PROVE SpeakerInv(t)'
      <3>1. CASE t # s
        <4>1. At(t) = "idle" /\ At(t)' = "idle"
          BY Zenon, <2>1, <3>1 DEF At
        <4> QED BY Zenon, <1>i, <4>1, <2>1, <3>1, Untouched
      <3> QED BY Zenon, <3>1, <2>3
    <2>5. ClientInv'
      BY Zenon, <1>c, <2>1 DEF ClientInv
    <2> QED BY Zenon, <2>4, <2>5 DEF LifeInv
  <1>4. CASE LoopReset(s)
    <2>1. /\ UNCHANGED <<task, bits, client, route, switching>> /\ main.at = "reset" /\ main.who = s
          /\ main'.who = s /\ main'.seen = main.seen /\ main'.at = "start"
          /\ state_'[s] = "STOPPED"
          /\ \A t \in Speakers : t # s => state_'[t] = state_[t]
      BY Zenon, <1>4, <1>t DEF LoopReset, SetState, Types, Places
    <2>2. At(s) = "reset" /\ At(s)' = "start"
      BY Zenon, <2>1 DEF At
    <2>3. SpeakerInv(s)'
      BY Zenon, <2>1, <2>2, <1>s DEF SpeakerInv, BitsTell, OnlyRouteIsActive, SeenHolds, Alive, Noticed, TaskBits
    <2>4. ASSUME NEW t \in Speakers PROVE SpeakerInv(t)'
      <3>1. CASE t # s
        <4>1. At(t) = "idle" /\ At(t)' = "idle"
          BY Zenon, <2>1, <3>1 DEF At
        <4> QED BY Zenon, <1>i, <4>1, <2>1, <3>1, Untouched
      <3> QED BY Zenon, <3>1, <2>3
    <2>5. ClientInv'
      BY Zenon, <1>c, <2>1, <1>t DEF ClientInv, Types
    <2> QED BY Zenon, <2>4, <2>5 DEF LifeInv
  <1>5. CASE LoopStart(s)
    <2>0. LoopStarts(s)
      BY Zenon, <1>5, LoopStartOutcome
    <2>1. main.who = s /\ \A t \in Speakers : At(t)' = "idle"
      BY Zenon, <1>5, <2>0, IdleLoopNext DEF LoopStart, LoopStarts
    <2>2. SpeakerInv(s)'
      <3>1. CASE ~StartDue(s)
        <4>1. /\ UNCHANGED <<task, state_, client, route>>
              /\ \A b \in Signals : b \in bits'[s] <=> b \in bits[s]
          BY Zenon, <3>1, <2>0 DEF LoopStarts, Signals, TaskBits
        <4> QED BY Zenon, <1>s, <2>1, <4>1 DEF SpeakerInv, BitsTell, OnlyRouteIsActive, SeenHolds, Alive, Noticed,
                                        TaskBits, Signals
      <3>2. CASE StartDue(s) /\ UNCHANGED state_ /\ task' = [task EXCEPT ![s] = Task("begin")]
        <4>1. task'[s].pc = "begin" /\ task[s].pc = "none" /\ state_'[s] = "STARTING"
          BY Zenon, <1>t, <3>2, <2>0 DEF LoopStarts, Types, Task, StartDue, Alive
        <4>2. /\ client' \notin {"start", "command"} /\ s = route' /\ "COMMAND_START" \notin bits'[s]
              /\ \A b \in TaskBits : b \in bits'[s] <=> b \in bits[s]
          BY Zenon, <3>2, <2>0 DEF LoopStarts
        <4> QED BY Zenon, <1>s, <2>1, <4>1, <4>2 DEF SpeakerInv, BitsTell, OnlyRouteIsActive, SeenHolds, Alive,
                                              Noticed, TaskBits
      <3>3. CASE StartDue(s) /\ UNCHANGED task /\ state_' = [state_ EXCEPT ![s] = "STOPPED"]
        <4>1. task'[s].pc = "none" /\ task[s].pc = "none" /\ state_'[s] = "STOPPED"
          BY Zenon, <1>t, <3>3, <2>0 DEF LoopStarts, Types, Alive
        <4>2. \A b \in TaskBits : b \in bits'[s] <=> b \in bits[s]
          BY Zenon, <2>0 DEF LoopStarts
        <4> QED BY Zenon, <1>s, <2>1, <4>1, <4>2 DEF SpeakerInv, BitsTell, OnlyRouteIsActive, SeenHolds, Alive,
                                              Noticed, TaskBits
      <3> QED BY Zenon, <3>1, <3>2, <3>3, <2>0 DEF LoopStarts
    <2>3. ASSUME NEW t \in Speakers PROVE SpeakerInv(t)'
      <3>1. CASE t # s
        <4>1. At(t) = "idle" /\ At(t)' = "idle"
          BY Zenon, <2>1, <3>1 DEF At
        <4>2. task'[t].pc = task[t].pc /\ state_'[t] = state_[t] /\ bits'[t] = bits[t] /\ UNCHANGED <<client, route>>
          BY Zenon, <1>t, <3>1, <2>0 DEF LoopStarts, Types
        <4> QED BY Zenon, <1>i, <4>1, <4>2, Untouched
      <3> QED BY Zenon, <3>1, <2>2
    <2>4. ClientInv'
      BY Zenon, <1>c, <1>t, <2>0 DEF LoopStarts, ClientInv, Types
    <2> QED BY Zenon, <2>3, <2>4 DEF LifeInv
  <1>6. CASE ErrorEnds(s)
    <2>1. UNCHANGED <<task, state_, bits, main, client, route, switching>>
      BY Zenon, <1>6 DEF ErrorEnds, clientVars
    <2>2. ASSUME NEW t \in Speakers PROVE SpeakerInv(t)'
      BY Zenon, <1>i, <2>1, Untouched DEF At
    <2> QED BY Zenon, <1>c, <2>1, <2>2 DEF ClientInv, LifeInv
  <1> QED BY Zenon, <1>1, <1>2, <1>3, <1>4, <1>5, <1>6 DEF SpeakerLoop

-----------------------------------------------------------------------------
(* The speaker task.  Its locals after it has drained its queue ...        *)
LEMMA DrainedLocals ==
  ASSUME Types, NEW s \in Speakers
  PROVE  /\ Drained(s) \in TaskLocals
         /\ Drained(s).pc = task[s].pc /\ Drained(s).buf = task[s].buf
         /\ Drained(s).underflow = IF events[s] = 0 THEN task[s].underflow ELSE task[s].frames < events[s]
         /\ Drained(s).frames = IF task[s].frames < events[s] THEN 0 ELSE task[s].frames - events[s]
  <1>1. task[s] \in TaskLocals /\ events[s] \in Nat
    BY Zenon DEF Types
  <1>2. task[s].frames \in Nat
    BY Zenon, <1>1 DEF TaskLocals
  <1> DEFINE g == task[s].graceful \/ "COMMAND_STOP_GRACEFULLY" \in bits[s]
             u == IF events[s] = 0 THEN task[s].underflow ELSE task[s].frames < events[s]
             f == IF task[s].frames < events[s] THEN 0 ELSE task[s].frames - events[s]
  <1>3. Drained(s) = [task[s] EXCEPT !.graceful = g, !.underflow = u, !.frames = f]
    BY Zenon DEF Drained
  <1>4. g \in BOOLEAN
    OBVIOUS
  <1>5. u \in BOOLEAN
    <2>1. task[s].underflow \in BOOLEAN
      BY Zenon, <1>1 DEF TaskLocals
    <2>2. (task[s].frames < events[s]) \in BOOLEAN
      BY SMTT(30), <1>1, <1>2
    <2>3. CASE events[s] = 0
      BY <2>1, <2>3, Zenon
    <2>4. CASE events[s] # 0
      BY <2>2, <2>4, Zenon
    <2> QED BY Zenon, <2>3, <2>4
  <1>6. f \in Nat
    BY SMTT(30), <1>1, <1>2
  <1> HIDE DEF g, u, f
  <1>7. Drained(s) \in TaskLocals
    BY Zenon, <1>1, <1>3, <1>4, <1>5, <1>6 DEF TaskLocals
  <1>8. /\ Drained(s).pc = task[s].pc /\ Drained(s).buf = task[s].buf
        /\ Drained(s).underflow = u /\ Drained(s).frames = f
    BY Zenon, <1>1, <1>3 DEF TaskLocals
  <1> QED BY Zenon, <1>7, <1>8 DEF u, f

(* ... and has taken data from the ring buffer.                            *)
LEMMA FilledLocals ==
  ASSUME Types, NEW s \in Speakers, NEW full,
         full = [Drained(s) EXCEPT !.buf = @ \/ ring[s] > 0]
  PROVE  /\ full \in TaskLocals
         /\ full.pc = task[s].pc /\ full.underflow = Drained(s).underflow
         /\ full.frames = Drained(s).frames
         /\ full.buf <=> (task[s].buf \/ ring[s] > 0)
  <1> DEFINE b == Drained(s).buf \/ ring[s] > 0
  <1>1. Drained(s) \in TaskLocals /\ Drained(s).pc = task[s].pc /\ Drained(s).buf = task[s].buf
    BY Zenon, DrainedLocals
  <1>2. b \in BOOLEAN
    OBVIOUS
  <1>3. full = [Drained(s) EXCEPT !.buf = b]
    OBVIOUS
  <1>4. full.buf = b
    BY Zenon, <1>1, <1>3 DEF TaskLocals
  <1> HIDE DEF b
  <1>5. full \in TaskLocals /\ full.pc = Drained(s).pc /\ full.underflow = Drained(s).underflow
        /\ full.frames = Drained(s).frames
    BY Zenon, <1>1, <1>2, <1>3 DEF TaskLocals
  <1> QED BY Zenon, <1>1, <1>4, <1>5 DEF b

(* The locals after a buffer was sent are locals.                          *)
LEMMA SentLocals ==
  ASSUME NEW t \in TaskLocals, NEW u \in BOOLEAN, NEW b \in BOOLEAN, NEW f \in Nat
  PROVE  /\ [t EXCEPT !.underflow = u, !.buf = b, !.frames = f] \in TaskLocals
         /\ [t EXCEPT !.buf = b, !.frames = f] \in TaskLocals
  BY Zenon DEF TaskLocals

(* A buffer goes to the channel, as the first one after an underflow or    *)
(* behind others; or it does not.                                          *)
LEMMA SendOutcome ==
  ASSUME Types, NEW s \in Speakers, NEW t \in TaskLocals, Send(s, t)
  PROVE  /\ events' = [events EXCEPT ![s] = 0]
         /\ \E x \in TaskLocals :
              /\ task' = [task EXCEPT ![s] = x] /\ x.pc = t.pc
              /\ \/ /\ t.underflow /\ port.tx_handle_ /\ ~x.underflow /\ x.frames = t.frames + 1
                    /\ dma' = 1 /\ port' = [port EXCEPT !.tx = "RUNNING", !.on_sent = s]
                 \/ /\ ~t.underflow /\ ~x.underflow /\ x.frames = t.frames + 1
                    /\ dma' = dma + 1 /\ port' = port
                 \/ x = t /\ dma' = dma /\ port' = port
  <1>1. CASE t.underflow /\ port.tx_handle_
    <2> DEFINE x == [t EXCEPT !.underflow = FALSE, !.buf = FALSE, !.frames = @ + 1]
    <2>0. FALSE \in BOOLEAN /\ t.frames + 1 \in Nat
      BY SMTT(30) DEF TaskLocals
    <2>1. x \in TaskLocals
      BY ONLY Zenon, <2>0, t \in TaskLocals, SentLocals
    <2>2. x.pc = t.pc /\ x.frames = t.frames + 1
      BY Zenon DEF TaskLocals
    <2>3. x.underflow = FALSE
      BY Zenon DEF TaskLocals
    <2>4. /\ dma' = 1 /\ events' = [events EXCEPT ![s] = 0] /\ task' = [task EXCEPT ![s] = x]
          /\ port' = [port EXCEPT !.tx = "RUNNING", !.on_sent = s]
      BY Zenon, <1>1 DEF Send
    <2> HIDE DEF x
    <2> QED BY Zenon, <1>1, <2>1, <2>2, <2>3, <2>4
  <1>2. CASE ~t.underflow /\ port.tx_handle_ /\ dma < DMA_BUFFERS_COUNT
    <2> DEFINE x == [t EXCEPT !.buf = FALSE, !.frames = @ + 1]
    <2>0. FALSE \in BOOLEAN /\ t.frames + 1 \in Nat
      BY SMTT(30) DEF TaskLocals
    <2>1. x \in TaskLocals
      BY ONLY Zenon, <2>0, t \in TaskLocals, SentLocals
    <2>2. x.pc = t.pc /\ x.frames = t.frames + 1
      BY Zenon DEF TaskLocals
    <2>3. x.underflow = t.underflow
      BY Zenon DEF TaskLocals
    <2>4. /\ dma' = dma + 1 /\ events' = [events EXCEPT ![s] = 0] /\ task' = [task EXCEPT ![s] = x]
          /\ port' = port
      BY Zenon, <1>2 DEF Send
    <2> HIDE DEF x
    <2> QED BY Zenon, <1>2, <2>1, <2>2, <2>3, <2>4
  <1>3. CASE /\ ~(t.underflow /\ port.tx_handle_)
             /\ ~(~t.underflow /\ port.tx_handle_ /\ dma < DMA_BUFFERS_COUNT)
    <2>1. task' = [task EXCEPT ![s] = t] /\ events' = [events EXCEPT ![s] = 0] /\ UNCHANGED <<port, dma>>
      BY Zenon, <1>3 DEF Send
    <2> QED BY Zenon, <2>1
  <1> QED BY Zenon, <1>1, <1>2, <1>3

(* The outcomes of an iteration of the task's loop.                        *)
Rests(s, x) ==
  /\ x.pc = "run" /\ x.underflow = Drained(s).underflow /\ x.frames = Drained(s).frames
  /\ dma' = dma /\ port' = port /\ bits' = [bits EXCEPT ![s] = CommandsRead(s)]

SendsFirst(s, x) ==
  /\ x.pc = "run" /\ Drained(s).underflow /\ ~x.underflow /\ x.frames = Drained(s).frames + 1
  /\ dma' = 1 /\ port.tx_handle_ /\ port' = [port EXCEPT !.tx = "RUNNING", !.on_sent = s]
  /\ bits' = [bits EXCEPT ![s] = CommandsRead(s)]

SendsMore(s, x) ==
  /\ x.pc = "run" /\ ~Drained(s).underflow /\ ~x.underflow /\ x.frames = Drained(s).frames + 1
  /\ dma' = dma + 1 /\ port' = port /\ bits' = [bits EXCEPT ![s] = CommandsRead(s)]

Finishes(s, x) ==
  /\ x.pc = "freeing" /\ Drained(s).underflow /\ x.frames = Drained(s).frames
  /\ ring[s] = 0 /\ ~task[s].buf
  /\ dma' = dma /\ port' = port
  /\ bits' = [bits EXCEPT ![s] = CommandsRead(s) \union {"TASK_STOPPING"}]

(* An iteration of the task rests, sends or finishes.                      *)
LEMMA IterationOutcome ==
  ASSUME Types, NEW s \in Speakers, TaskIterates(s)
  PROVE  /\ events' = [events EXCEPT ![s] = 0] /\ ring' \in [Speakers -> Nat]
         /\ \E x \in TaskLocals :
              /\ task' = [task EXCEPT ![s] = x]
              /\ Rests(s, x) \/ SendsFirst(s, x) \/ SendsMore(s, x) \/ Finishes(s, x)
  <1> DEFINE t    == Drained(s)
             full == [t EXCEPT !.buf = @ \/ ring[s] > 0]
  <1>1. t \in TaskLocals /\ t.pc = "run" /\ t.buf = task[s].buf /\ task[s].pc = "run"
    BY Zenon, DrainedLocals DEF TaskIterates
  <1>2. /\ full \in TaskLocals /\ full.pc = "run" /\ full.underflow = t.underflow
        /\ full.frames = t.frames /\ (full.buf <=> (task[s].buf \/ ring[s] > 0))
    BY Zenon, FilledLocals, <1>1
  <1>3. ring[s] \in Nat /\ ring \in [Speakers -> Nat]
    BY Zenon DEF Types
  <1>4. CASE pause_state_[s]
    <2>1. /\ task' = [task EXCEPT ![s] = t] /\ events' = [events EXCEPT ![s] = 0]
          /\ bits' = [bits EXCEPT ![s] = CommandsRead(s)] /\ UNCHANGED <<ring, port, dma>>
      BY Zenon, <1>4 DEF TaskIterates
    <2>2. Rests(s, t)
      BY Zenon, <1>1, <2>1 DEF Rests
    <2> HIDE DEF t
    <2> QED BY Zenon, <1>1, <1>3, <2>1, <2>2
  <1>5. CASE ~pause_state_[s] /\ full.buf
    <2>1. /\ ring' = [ring EXCEPT ![s] = IF t.buf THEN @ ELSE @ - 1]
          /\ bits' = [bits EXCEPT ![s] = CommandsRead(s)] /\ Send(s, full)
      BY Zenon, <1>5 DEF TaskIterates
    <2> HIDE DEF t, full
    <2>2. ring' \in [Speakers -> Nat]
      BY SMTT(30), <1>1, <1>2, <1>3, <1>5, <2>1
    <2>3. events' = [events EXCEPT ![s] = 0]
      BY Zenon, <1>2, <2>1, SendOutcome
    <2>4. PICK x \in TaskLocals :
              /\ task' = [task EXCEPT ![s] = x] /\ x.pc = full.pc
              /\ \/ /\ full.underflow /\ port.tx_handle_ /\ ~x.underflow /\ x.frames = full.frames + 1
                    /\ dma' = 1 /\ port' = [port EXCEPT !.tx = "RUNNING", !.on_sent = s]
                 \/ /\ ~full.underflow /\ ~x.underflow /\ x.frames = full.frames + 1
                    /\ dma' = dma + 1 /\ port' = port
                 \/ x = full /\ dma' = dma /\ port' = port
      BY Zenon, <1>2, <2>1, SendOutcome
    <2>5. Rests(s, x) \/ SendsFirst(s, x) \/ SendsMore(s, x)
      BY Zenon, <1>2, <2>1, <2>4 DEF Rests, SendsFirst, SendsMore, t
    <2> QED BY Zenon, <2>2, <2>3, <2>4, <2>5
  <1>6. CASE ~pause_state_[s] /\ ~full.buf
    <2>1. /\ task' = [task EXCEPT ![s] = IF t.graceful /\ t.underflow THEN [t EXCEPT !.pc = "freeing"] ELSE t]
          /\ bits' = [bits EXCEPT ![s] = CommandsRead(s) \union
                                         IF t.graceful /\ t.underflow THEN {"TASK_STOPPING"} ELSE {}]
          /\ events' = [events EXCEPT ![s] = 0] /\ UNCHANGED <<ring, port, dma>>
      BY Zenon, <1>6 DEF TaskIterates
    <2> HIDE DEF full
    <2>2. CASE t.graceful /\ t.underflow
      <3> DEFINE x == [t EXCEPT !.pc = "freeing"]
      <3>1. x \in TaskLocals /\ x.pc = "freeing" /\ x.frames = t.frames
        BY Zenon, <1>1 DEF TaskLocals
      <3>2. ring[s] = 0 /\ ~task[s].buf
        BY SMTT(30), <1>2, <1>3, <1>6
      <3>3. task' = [task EXCEPT ![s] = x] /\ bits' = [bits EXCEPT ![s] = CommandsRead(s) \union {"TASK_STOPPING"}]
        BY Zenon, <2>1, <2>2
      <3> HIDE DEF x
      <3>4. Finishes(s, x)
        BY Zenon, <2>1, <2>2, <3>1, <3>2, <3>3 DEF Finishes
      <3> QED BY Zenon, <1>3, <2>1, <3>1, <3>3, <3>4
    <2>3. CASE ~(t.graceful /\ t.underflow)
      <3>1. task' = [task EXCEPT ![s] = t] /\ bits' = [bits EXCEPT ![s] = CommandsRead(s) \union {}]
        BY Zenon, <2>1, <2>3
      <3>2. CommandsRead(s) \union {} = CommandsRead(s)
        OBVIOUS
      <3>3. Rests(s, t)
        BY Zenon, <1>1, <2>1, <3>1, <3>2 DEF Rests
      <3> HIDE DEF t
      <3> QED BY Zenon, <1>1, <1>3, <2>1, <3>1, <3>3
    <2> QED BY Zenon, <2>2, <2>3
  <1> QED BY Zenon, <1>4, <1>5, <1>6

(* A step of the task of s takes it from one place to another and sets the *)
(* bits new.                                                               *)
Moves(s, from, to, new) ==
  /\ task[s].pc = from /\ task'[s].pc = to
  /\ \A b \in Signals : b \in bits'[s] <=> b \in bits[s] \/ b \in new

(* A step of the task, by where it is and the bits it sets.                *)
LEMMA TaskOutcome ==
  ASSUME Types, NEW s \in Speakers, TaskStep(s)
  PROVE  /\ UNCHANGED <<state_, main, client, route, switching>>
         /\ \A t \in Speakers \ {s} : task'[t] = task[t] /\ bits'[t] = bits[t]
         /\ task' \in [Speakers -> TaskLocals]
         /\ \/ Moves(s, "begin", "run", {"TASK_RUNNING"})
            \/ Moves(s, "begin", "failing", {"TASK_STOPPING"})
            \/ Moves(s, "run", "run", {})
            \/ Moves(s, "run", "freeing", {"TASK_STOPPING"})
            \/ Moves(s, "freeing", "stopped", {"TASK_STOPPED"})
            \/ Moves(s, "failing", "stopped", {"TASK_STOPPED"})
  <1>1. UNCHANGED <<state_, main, client, route, switching>>
    BY Zenon DEF TaskStep, TaskBegins, TaskStops, TaskIterates, TaskFrees, clientVars
  <1>2. task \in [Speakers -> TaskLocals] /\ task[s] \in TaskLocals
        /\ bits \in [Speakers -> SUBSET SpeakerEventGroupBits]
    BY Zenon DEF Types
  <1>3. ASSUME NEW pc \in {"none", "begin", "run", "freeing", "failing", "stopped"},
               task' = [task EXCEPT ![s].pc = pc]
        PROVE  /\ task'[s].pc = pc /\ task' \in [Speakers -> TaskLocals]
               /\ \A t \in Speakers \ {s} : task'[t] = task[t]
    <2>1. [task[s] EXCEPT !.pc = pc] \in TaskLocals /\ [task[s] EXCEPT !.pc = pc].pc = pc
      BY Zenon, <1>2 DEF TaskLocals
    <2> QED BY Zenon, <1>2, <1>3, <2>1
  <1>4. CASE TaskBegins(s)
    <2>1. CASE task' = [task EXCEPT ![s].pc = "run"] /\ SetBits(s, {"TASK_RUNNING"})
      <3>1. task'[s].pc = "run" /\ task' \in [Speakers -> TaskLocals]
            /\ \A t \in Speakers \ {s} : task'[t] = task[t]
        BY Zenon, <1>3, <2>1
      <3> QED BY Zenon, <1>1, <1>2, <1>4, <2>1, <3>1 DEF TaskBegins, Moves, SetBits, Signals, TaskBits
    <2>2. CASE task' = [task EXCEPT ![s].pc = "failing"] /\ SetBits(s, {"ERR_ESP_NO_MEM", "TASK_STOPPING"})
      <3>1. task'[s].pc = "failing" /\ task' \in [Speakers -> TaskLocals]
            /\ \A t \in Speakers \ {s} : task'[t] = task[t]
        BY Zenon, <1>3, <2>2
      <3> QED BY Zenon, <1>1, <1>2, <1>4, <2>2, <3>1 DEF TaskBegins, Moves, SetBits, Signals, TaskBits
    <2> QED BY Zenon, <1>4, <2>1, <2>2 DEF TaskBegins
  <1>5. CASE TaskStops(s)
    <2>1. task'[s].pc = "freeing" /\ task' \in [Speakers -> TaskLocals]
            /\ \A t \in Speakers \ {s} : task'[t] = task[t]
      BY Zenon, <1>3, <1>5 DEF TaskStops
    <2>2. task[s].pc = "run"
      BY Zenon, <1>5 DEF TaskStops
    <2>3. /\ \A b \in Signals : b \in bits'[s] <=> b \in bits[s] \/ b \in {"TASK_STOPPING"}
          /\ \A t \in Speakers \ {s} : bits'[t] = bits[t]
      <3>1. CASE bits' = [bits EXCEPT ![s] = (@ \ {"COMMAND_STOP"}) \union {"TASK_STOPPING"}]
        BY Zenon, <1>2, <3>1 DEF Signals, TaskBits
      <3>2. CASE SetBits(s, {"TASK_STOPPING"})
        BY Zenon, <1>2, <3>2 DEF SetBits
      <3> QED BY Zenon, <1>5, <3>1, <3>2 DEF TaskStops
    <2> QED BY Zenon, <1>1, <2>1, <2>2, <2>3 DEF Moves
  <1>6. CASE TaskIterates(s)
    <2>1. PICK x \in TaskLocals :
            /\ task' = [task EXCEPT ![s] = x]
            /\ Rests(s, x) \/ SendsFirst(s, x) \/ SendsMore(s, x) \/ Finishes(s, x)
      BY Zenon, <1>6, IterationOutcome
    <2>2. task[s].pc = "run"
      BY Zenon, <1>6 DEF TaskIterates
    <2>3. task'[s].pc = x.pc /\ task' \in [Speakers -> TaskLocals]
            /\ \A t \in Speakers \ {s} : task'[t] = task[t]
      BY Zenon, <1>2, <2>1
    <2>4. CASE x.pc = "run" /\ bits' = [bits EXCEPT ![s] = CommandsRead(s)]
      BY Zenon, <1>1, <1>2, <2>2, <2>3, <2>4 DEF Moves, CommandsRead, Signals, TaskBits
    <2>5. CASE x.pc = "freeing" /\ bits' = [bits EXCEPT ![s] = CommandsRead(s) \union {"TASK_STOPPING"}]
      BY Zenon, <1>1, <1>2, <2>2, <2>3, <2>5 DEF Moves, CommandsRead, Signals, TaskBits
    <2> QED BY Zenon, <2>1, <2>4, <2>5 DEF Rests, SendsFirst, SendsMore, Finishes
  <1>7. CASE TaskFrees(s)
    <2>1. task'[s].pc = "stopped" /\ task' \in [Speakers -> TaskLocals]
            /\ \A t \in Speakers \ {s} : task'[t] = task[t]
      BY Zenon, <1>3, <1>7 DEF TaskFrees
    <2> QED BY Zenon, <1>1, <1>2, <1>7, <2>1 DEF TaskFrees, Moves, SetBits
  <1> QED BY Zenon, <1>4, <1>5, <1>6, <1>7 DEF TaskStep

(* A step of a task keeps LifeInv.                                         *)
LEMMA TaskLife ==
  ASSUME OwnerInv, NEW s \in Speakers, TaskStep(s)
  PROVE  LifeInv'
  <1>t. Types /\ ClientInv /\ SpeakerInv(s) /\ \A t \in Speakers : SpeakerInv(t)
    BY Zenon DEF OwnerInv, LifeInv
  <1>1. /\ UNCHANGED <<state_, main, client, route, switching>>
        /\ \A t \in Speakers \ {s} : task'[t] = task[t] /\ bits'[t] = bits[t]
    BY Zenon, <1>t, TaskOutcome
  <1>2. \A t \in Speakers : At(t)' = At(t)
    BY Zenon, <1>1 DEF At
  <1>m. \/ Moves(s, "begin", "run", {"TASK_RUNNING"})
        \/ Moves(s, "begin", "failing", {"TASK_STOPPING"})
        \/ Moves(s, "run", "run", {})
        \/ Moves(s, "run", "freeing", {"TASK_STOPPING"})
        \/ Moves(s, "freeing", "stopped", {"TASK_STOPPED"})
        \/ Moves(s, "failing", "stopped", {"TASK_STOPPED"})
    BY Zenon, <1>t, TaskOutcome
  <1>s. BitsTell(s) /\ OnlyRouteIsActive(s) /\ SeenHolds(s)
    BY Zenon, <1>t DEF SpeakerInv
  <1>e. UNCHANGED <<state_, client, route, main>> /\ At(s)' = At(s)
    BY Zenon, <1>1, <1>2
  <1>3. BitsTell(s)' /\ OnlyRouteIsActive(s)' /\ SeenHolds(s)'
    <2>1. CASE Moves(s, "begin", "run", {"TASK_RUNNING"})
      <3>1. task[s].pc = "begin" /\ task'[s].pc = "run"
        BY ONLY Zenon, <2>1 DEF Moves
      <3>2. /\ "TASK_RUNNING" \in bits'[s]
            /\ "TASK_STOPPING" \in bits'[s] <=> "TASK_STOPPING" \in bits[s]
            /\ "TASK_STOPPED" \in bits'[s] <=> "TASK_STOPPED" \in bits[s]
            /\ "COMMAND_START" \in bits'[s] <=> "COMMAND_START" \in bits[s]
        BY ONLY SMTT(30), <2>1 DEF Moves, Signals, TaskBits
      <3>3. BitsTell(s)'
        BY ONLY Zenon, <1>s, <1>e, <3>1, <3>2 DEF BitsTell, OnlyRouteIsActive, Alive, Noticed, TaskBits
      <3>4. OnlyRouteIsActive(s)'
        BY ONLY Zenon, <1>s, <1>e, <3>1, <3>2 DEF BitsTell, OnlyRouteIsActive, Alive, Noticed, TaskBits
      <3>5. SeenHolds(s)'
        BY ONLY Zenon, <1>s, <1>e, <3>1, <3>2 DEF BitsTell, SeenHolds, Alive, Noticed, Signals, TaskBits
      <3> QED BY Zenon, <3>3, <3>4, <3>5
    <2>2. CASE Moves(s, "begin", "failing", {"TASK_STOPPING"})
      <3>1. task[s].pc = "begin" /\ task'[s].pc = "failing"
        BY ONLY Zenon, <2>2 DEF Moves
      <3>2. /\ "TASK_RUNNING" \in bits'[s] <=> "TASK_RUNNING" \in bits[s]
            /\ "TASK_STOPPING" \in bits'[s]
            /\ "TASK_STOPPED" \in bits'[s] <=> "TASK_STOPPED" \in bits[s]
            /\ "COMMAND_START" \in bits'[s] <=> "COMMAND_START" \in bits[s]
        BY ONLY SMTT(30), <2>2 DEF Moves, Signals, TaskBits
      <3>3. BitsTell(s)'
        BY ONLY Zenon, <1>s, <1>e, <3>1, <3>2 DEF BitsTell, OnlyRouteIsActive, Alive, Noticed, TaskBits
      <3>4. OnlyRouteIsActive(s)'
        BY ONLY Zenon, <1>s, <1>e, <3>1, <3>2 DEF BitsTell, OnlyRouteIsActive, Alive, Noticed, TaskBits
      <3>5. SeenHolds(s)'
        BY ONLY Zenon, <1>s, <1>e, <3>1, <3>2 DEF BitsTell, SeenHolds, Alive, Noticed, Signals, TaskBits
      <3> QED BY Zenon, <3>3, <3>4, <3>5
    <2>3. CASE Moves(s, "run", "run", {})
      <3>1. BitsTell(s)'
        BY ONLY Zenon, <1>s, <1>e, <2>3 DEF BitsTell, OnlyRouteIsActive, SeenHolds, Alive, Noticed, Signals, TaskBits, Moves
      <3>2. OnlyRouteIsActive(s)'
        BY ONLY Zenon, <1>s, <1>e, <2>3 DEF BitsTell, OnlyRouteIsActive, SeenHolds, Alive, Noticed, Signals, TaskBits, Moves
      <3>3. SeenHolds(s)'
        BY ONLY Zenon, <1>s, <1>e, <2>3 DEF BitsTell, OnlyRouteIsActive, SeenHolds, Alive, Noticed, Signals, TaskBits, Moves
      <3> QED BY Zenon, <3>1, <3>2, <3>3
    <2>4. CASE Moves(s, "run", "freeing", {"TASK_STOPPING"})
      <3>1. task[s].pc = "run" /\ task'[s].pc = "freeing"
        BY ONLY Zenon, <2>4 DEF Moves
      <3>2. /\ "TASK_RUNNING" \in bits'[s] <=> "TASK_RUNNING" \in bits[s]
            /\ "TASK_STOPPING" \in bits'[s]
            /\ "TASK_STOPPED" \in bits'[s] <=> "TASK_STOPPED" \in bits[s]
            /\ "COMMAND_START" \in bits'[s] <=> "COMMAND_START" \in bits[s]
        BY ONLY SMTT(30), <2>4 DEF Moves, Signals, TaskBits
      <3>3. BitsTell(s)'
        BY ONLY Zenon, <1>s, <1>e, <3>1, <3>2 DEF BitsTell, OnlyRouteIsActive, Alive, Noticed, TaskBits
      <3>4. OnlyRouteIsActive(s)'
        BY ONLY Zenon, <1>s, <1>e, <3>1, <3>2 DEF BitsTell, OnlyRouteIsActive, Alive, Noticed, TaskBits
      <3>5. SeenHolds(s)'
        BY ONLY Zenon, <1>s, <1>e, <3>1, <3>2 DEF BitsTell, SeenHolds, Alive, Noticed, Signals, TaskBits
      <3> QED BY Zenon, <3>3, <3>4, <3>5
    <2>5. CASE Moves(s, "freeing", "stopped", {"TASK_STOPPED"})
      <3>1. task[s].pc = "freeing" /\ task'[s].pc = "stopped"
        BY ONLY Zenon, <2>5 DEF Moves
      <3>2. /\ "TASK_RUNNING" \in bits'[s] <=> "TASK_RUNNING" \in bits[s]
            /\ "TASK_STOPPING" \in bits'[s] <=> "TASK_STOPPING" \in bits[s]
            /\ "TASK_STOPPED" \in bits'[s]
            /\ "COMMAND_START" \in bits'[s] <=> "COMMAND_START" \in bits[s]
        BY ONLY SMTT(30), <2>5 DEF Moves, Signals, TaskBits
      <3>3. BitsTell(s)'
        BY ONLY Zenon, <1>s, <1>e, <3>1, <3>2 DEF BitsTell, OnlyRouteIsActive, Alive, Noticed, TaskBits
      <3>4. OnlyRouteIsActive(s)'
        BY ONLY Zenon, <1>s, <1>e, <3>1, <3>2 DEF BitsTell, OnlyRouteIsActive, Alive, Noticed, TaskBits
      <3>5. SeenHolds(s)'
        BY ONLY Zenon, <1>s, <1>e, <3>1, <3>2 DEF BitsTell, SeenHolds, Alive, Noticed, Signals, TaskBits
      <3> QED BY Zenon, <3>3, <3>4, <3>5
    <2>6. CASE Moves(s, "failing", "stopped", {"TASK_STOPPED"})
      <3>1. task[s].pc = "failing" /\ task'[s].pc = "stopped"
        BY ONLY Zenon, <2>6 DEF Moves
      <3>2. /\ "TASK_RUNNING" \in bits'[s] <=> "TASK_RUNNING" \in bits[s]
            /\ "TASK_STOPPING" \in bits'[s] <=> "TASK_STOPPING" \in bits[s]
            /\ "TASK_STOPPED" \in bits'[s]
            /\ "COMMAND_START" \in bits'[s] <=> "COMMAND_START" \in bits[s]
        BY ONLY SMTT(30), <2>6 DEF Moves, Signals, TaskBits
      <3>3. BitsTell(s)'
        BY ONLY Zenon, <1>s, <1>e, <3>1, <3>2 DEF BitsTell, OnlyRouteIsActive, Alive, Noticed, TaskBits
      <3>4. OnlyRouteIsActive(s)'
        BY ONLY Zenon, <1>s, <1>e, <3>1, <3>2 DEF BitsTell, OnlyRouteIsActive, Alive, Noticed, TaskBits
      <3>5. SeenHolds(s)'
        BY ONLY Zenon, <1>s, <1>e, <3>1, <3>2 DEF BitsTell, SeenHolds, Alive, Noticed, Signals, TaskBits
      <3> QED BY Zenon, <3>3, <3>4, <3>5
    <2> QED BY Zenon, <1>m, <2>1, <2>2, <2>3, <2>4, <2>5, <2>6
  <1>4. ASSUME NEW t \in Speakers PROVE SpeakerInv(t)'
    <2>1. CASE t # s
      BY Zenon, <1>t, <1>1, <1>2, <2>1, Untouched
    <2> QED BY Zenon, <1>3, <2>1 DEF SpeakerInv
  <1>5. ClientInv'
    BY Zenon, <1>t, <1>1 DEF ClientInv
  <1> QED BY Zenon, <1>4, <1>5 DEF LifeInv

-----------------------------------------------------------------------------
(* What the last part of loop() does to the port.                          *)
LEMMA LoopStartPort ==
  ASSUME InTime, OwnerInv, NEW s \in Speakers, LoopStart(s)
  PROVE  /\ port' \in Ports /\ faults' \in 0..MaxFaults /\ faults' <= faults /\ TxSound(port')
         /\ ~StartDue(s) => port' = port /\ stop_asked' = stop_asked
         /\ StartDue(s) => \/ task' = [task EXCEPT ![s] = Task("begin")] /\ port'.tx = "RUNNING"
                           \/ task' = task /\ port'.tx # "RUNNING"
         /\ port.rx_handle_ => port'.rx_handle_ /\ port'.rx = port.rx
         /\ RxSound(port) /\ faults' = faults => RxSound(port') /\ stop_asked' = stop_asked
         /\ stop_asked' \in [Speakers -> BOOLEAN]
  <1>t. Types /\ PortInv
    BY Zenon DEF OwnerInv
  <1>f. faults \in Nat /\ MaxFaults \in Nat /\ port \in Ports /\ faults \in 0..MaxFaults /\ TxSound(port)
    BY Zenon, <1>t, FaultBounds DEF PortInv
  <1>1. CASE ~StartDue(s)
    <2>1. UNCHANGED <<port, faults, stop_asked>>
      BY Zenon, <1>1 DEF LoopStart
    <2>2. stop_asked \in [Speakers -> BOOLEAN]
      BY Zenon, <1>t DEF Types
    <2>3. faults' <= faults
      BY SMTT(30), <1>f, <2>1
    <2> QED BY Zenon, <1>1, <1>f, <2>1, <2>2, <2>3
  <1>2. CASE StartDue(s)
    <2>1. PICK r \in start_tx(port) : IF r.ok THEN DriverStarted(s, r.port) ELSE DriverFailed(s, r)
      BY Zenon, <1>2 DEF LoopStart
    <2>2. port.tx # "RUNNING" /\ ~Alive(s)
      BY Zenon, <1>2, LoopStartOutcome DEF LoopStarts
    <2>3. /\ r.port \in Ports /\ r.cost \in {0, 1} /\ r.cost <= faults /\ TxSound(r.port)
          /\ r.ok => r.cost = 0 /\ r.port.tx = "RUNNING"
          /\ ~r.ok => r.port.tx # "RUNNING"
          /\ RxSound(port) /\ r.cost = 0 => r.ok /\ RxSound(r.port)
          /\ port.rx_handle_ => r.port.rx_handle_ /\ r.port.rx = port.rx
      BY Zenon, <1>f, <2>2, StartTxOutcome
    <2>4. [stop_asked EXCEPT ![s] = FALSE] \in [Speakers -> BOOLEAN] /\ stop_asked \in [Speakers -> BOOLEAN]
      BY Zenon, <1>t DEF Types
    <2>5. CASE r.ok /\ task' = [task EXCEPT ![s] = Task("begin")] /\ port' = r.port /\ UNCHANGED <<faults, stop_asked>>
      BY SMTT(30), <1>2, <1>f, <2>3, <2>4, <2>5
    <2>6. CASE /\ r.ok /\ port' = stop_tx(r.port) /\ faults > 0 /\ faults' = faults - 1
               /\ stop_asked' = [stop_asked EXCEPT ![s] = FALSE] /\ task' = task
      <3>1. /\ port' \in Ports /\ TxSound(port') /\ port'.tx # "RUNNING"
            /\ port'.rx = r.port.rx /\ port'.rx_handle_ = r.port.rx_handle_
        BY Zenon, <2>3, <2>6, StopTxOutcome
      <3>2. faults' \in 0..MaxFaults /\ faults' < faults
        BY SMTT(30), <1>f, <2>6
      <3> QED BY SMTT(30), <1>2, <1>f, <2>3, <2>4, <2>6, <3>1, <3>2
    <2>7. CASE ~r.ok /\ DriverFailed(s, r)
      <3>1. port' = r.port /\ faults' = faults - r.cost /\ stop_asked' = [stop_asked EXCEPT ![s] = FALSE] /\ task' = task
        BY Zenon, <2>7 DEF DriverFailed
      <3>2. faults' \in 0..MaxFaults /\ faults' <= faults /\ (r.cost = 1 => faults' # faults)
        BY SMTT(30), <1>f, <2>3, <3>1
      <3> QED BY Zenon, <1>2, <1>f, <2>3, <2>4, <2>7, <3>1, <3>2
    <2> QED BY Zenon, <2>1, <2>2, <2>5, <2>6, <2>7 DEF DriverStarted, Alive
  <1> QED BY Zenon, <1>1, <1>2

(* What a loop() of the microphone does to the port.                       *)
LEMMA MicLoopPort ==
  ASSUME OwnerInv, MicLoop
  PROVE  /\ port' \in Ports /\ faults' \in 0..MaxFaults /\ faults' <= faults /\ TxSound(port')
         /\ port.tx_handle_ => port'.tx = port.tx /\ port'.on_sent = port.on_sent
         /\ ~port.tx_handle_ => port'.tx # "RUNNING"
         /\ RxSound(port) /\ faults' = faults => RxSound(port')
  <1>t. Types /\ PortInv
    BY Zenon DEF OwnerInv
  <1>f. faults \in Nat /\ MaxFaults \in Nat /\ port \in Ports /\ faults \in 0..MaxFaults /\ TxSound(port)
    BY Zenon, <1>t, FaultBounds DEF PortInv
  <1> DEFINE p == Seen.port
             t == Seen.task
  <1>1. /\ p \in Ports /\ p.tx = port.tx /\ p.tx_handle_ = port.tx_handle_ /\ p.on_sent = port.on_sent
        /\ RxSound(port) => RxSound(p)
    <2>1. p \in {port, stop_rx(port)}
      BY Zenon DEF Seen
    <2> QED BY Zenon, <1>f, <2>1, StopRxOutcome
  <1>2. TxSound(p)
    BY Zenon, <1>f, <1>1 DEF TxSound
  <1>3. (port' = p /\ UNCHANGED faults) \/ MicStarts(p, t)
    BY Zenon DEF MicLoop
  <1> HIDE DEF p, t
  <1>4. CASE port' = p /\ UNCHANGED faults
    BY SMTT(30), <1>f, <1>1, <1>2, <1>4 DEF TxSound
  <1>5. CASE MicStarts(p, t)
    <2>1. PICK r \in start_rx(p) :
            \/ ~r.ok /\ port' = stop_rx(r.port) /\ faults' = faults - r.cost
            \/ r.ok /\ port' = r.port /\ UNCHANGED faults
            \/ r.ok /\ faults > 0 /\ faults' = faults - 1 /\ port' = stop_rx(r.port)
      BY Zenon, <1>5 DEF MicStarts
    <2>2. /\ r.port \in Ports /\ r.cost \in {0, 1} /\ r.cost <= faults /\ TxSound(r.port)
          /\ p.tx_handle_ => r.port.tx = p.tx /\ r.port.on_sent = p.on_sent
          /\ ~p.tx_handle_ => r.port.tx # "RUNNING"
          /\ RxSound(p) /\ r.cost = 0 => RxSound(r.port)
          /\ r.ok => r.cost = 0
      BY Zenon, <1>f, <1>1, <1>2, StartRxOutcome
    <2>3. /\ port' \in Ports /\ port'.tx = r.port.tx /\ port'.tx_handle_ = r.port.tx_handle_
          /\ port'.on_sent = r.port.on_sent /\ (RxSound(r.port) => RxSound(port'))
      BY Zenon, <2>1, <2>2, StopRxOutcome
    <2>4. TxSound(port')
      BY Zenon, <2>2, <2>3 DEF TxSound
    <2>5. faults' \in 0..MaxFaults /\ faults' <= faults /\ (r.cost = 1 => faults' # faults)
      BY SMTT(30), <1>f, <2>1, <2>2
    <2> QED BY Zenon, <1>1, <2>2, <2>3, <2>4, <2>5
  <1> QED BY Zenon, <1>3, <1>4, <1>5

-----------------------------------------------------------------------------
(* Every step keeps the types ...                                          *)
LEMMA TypesStep ==
  ASSUME InTime, OwnerInv, SpeakerNext
  PROVE  Types'
  <1>t. Types
    BY Zenon DEF OwnerInv
  <1>f. faults \in Nat /\ MaxFaults \in Nat
    BY Zenon, <1>t, FaultBounds
  <1>1. CASE ClientStep
    <2>1. UNCHANGED <<port, faults, task, events, dma, main, route, switching, stop_asked>>
      BY Zenon, <1>1 DEF ClientStep, PlayStarts, StartWritesState, StartCommands, PlayWrites, HasBufferedData,
                  speakerVars
    <2>2. client' \in {"ready", "start", "command", "lock"}
      BY Zenon, <1>1, <1>t DEF ClientStep, PlayStarts, StartWritesState, StartCommands, PlayWrites, HasBufferedData,
                        Types
    <2>3. state_' \in [Speakers -> SpeakerStates]
      BY Zenon, <1>1, <1>t DEF ClientStep, PlayStarts, StartWritesState, StartCommands, PlayWrites, HasBufferedData,
                        Types, SetState, SpeakerStates, speakerVars
    <2>4. bits' \in [Speakers -> SUBSET SpeakerEventGroupBits]
      BY Zenon, <1>1, <1>t DEF ClientStep, PlayStarts, StartWritesState, StartCommands, PlayWrites, HasBufferedData,
                        Types, SetBits, SpeakerEventGroupBits, speakerVars
    <2>5. ring' \in [Speakers -> Nat]
      BY SMTT(30), <1>1, <1>t DEF ClientStep, PlayStarts, StartWritesState, StartCommands, PlayWrites, HasBufferedData,
                        Types, speakerVars
    <2> QED BY Zenon, <1>t, <2>1, <2>2, <2>3, <2>4, <2>5 DEF Types
  <1>2. CASE UserStops \/ UserPauses \/ SwitchBegins
    <2>1. UNCHANGED <<port, faults, state_, task, ring, events, dma, main, client, route>>
      BY Zenon, <1>2 DEF UserStops, UserPauses, SwitchBegins
    <2>2. switching' \in Speakers \union {Nobody}
      BY Zenon, <1>2, <1>t DEF UserStops, UserPauses, SwitchBegins, Types
    <2>3. /\ bits' \in [Speakers -> SUBSET SpeakerEventGroupBits]
          /\ stop_asked' \in [Speakers -> BOOLEAN]
      <3>1. UNCHANGED <<bits, stop_asked>> \/ \E b \in {"COMMAND_STOP", "COMMAND_STOP_GRACEFULLY"} : stop_(route, b)
        BY Zenon, <1>2 DEF UserStops, UserPauses, SwitchBegins
      <3>2. ASSUME NEW b \in {"COMMAND_STOP", "COMMAND_STOP_GRACEFULLY"}, stop_(route, b)
            PROVE  /\ bits' \in [Speakers -> SUBSET SpeakerEventGroupBits]
                   /\ stop_asked' \in [Speakers -> BOOLEAN]
        <4>1. CASE UNCHANGED <<bits, stop_asked>>
          BY Zenon, <1>t, <4>1 DEF Types
        <4>2. CASE SetBits(route, {b}) /\ stop_asked' = [stop_asked EXCEPT ![route] = TRUE]
          <5>1. bits' \in [Speakers -> SUBSET SpeakerEventGroupBits]
            BY Zenon, <1>t, <4>2 DEF Types, SetBits, SpeakerEventGroupBits
          <5>2. stop_asked' \in [Speakers -> BOOLEAN]
            BY Zenon, <1>t, <4>2 DEF Types
          <5> QED BY Zenon, <5>1, <5>2
        <4> QED BY Zenon, <3>2, <4>1, <4>2 DEF stop_
      <3> QED BY Zenon, <1>t, <3>1, <3>2 DEF Types
    <2> QED BY Zenon, <1>t, <2>1, <2>2, <2>3 DEF Types
  <1>3. CASE SwitchEnds
    BY Zenon, <1>3, <1>t DEF SwitchEnds, Types, speakerVars
  <1>4. CASE DmaSent
    <2>1. UNCHANGED <<port, faults, state_, task, ring, main, client, route, switching>>
      BY Zenon, <1>4 DEF DmaSent
    <2>2. dma' \in Nat
      BY SMTT(30), <1>4, <1>t DEF DmaSent, Types
    <2>3. port.on_sent \in Speakers \union {Nobody}
      BY Zenon, <1>t DEF Types, Ports
    <2>4. \/ UNCHANGED <<events, bits, stop_asked>>
          \/ /\ port.on_sent \in Speakers /\ UNCHANGED <<bits, stop_asked>>
             /\ events' = [events EXCEPT ![port.on_sent] = @ + 1]
          \/ /\ port.on_sent \in Speakers /\ UNCHANGED events
             /\ bits' = [bits EXCEPT ![port.on_sent] = @ \union {"ERR_DROPPED_EVENT", "COMMAND_STOP"}]
             /\ stop_asked' = [stop_asked EXCEPT ![port.on_sent] = TRUE]
      BY Zenon, <1>4, <2>3 DEF DmaSent, SetBits
    <2>5. events' \in [Speakers -> Nat]
      BY SMTT(30), <1>t, <2>4 DEF Types
    <2>6. bits' \in [Speakers -> SUBSET SpeakerEventGroupBits]
      BY SMTT(30), <1>t, <2>4 DEF Types, SpeakerEventGroupBits
    <2>7. stop_asked' \in [Speakers -> BOOLEAN]
      BY Zenon, <1>t, <2>4 DEF Types
    <2> QED BY Zenon, <1>t, <2>1, <2>2, <2>5, <2>6, <2>7 DEF Types
  <1>5. ASSUME NEW s \in Speakers, SpeakerLoop(s) PROVE Types'
    <2>1. CASE LoopReads(s)
      <3>1. main' \in Places
        BY Zenon, <2>1, <1>t DEF LoopReads, Places, Types
      <3> QED BY Zenon, <1>t, <2>1, <3>1 DEF LoopReads, Types, speakerVars, clientVars
    <2>2. CASE LoopFlags(s)
      <3>1. main' \in Places
        BY Zenon, <2>2, <1>t DEF LoopFlags, Places, Types
      <3>2. state_' \in [Speakers -> SpeakerStates]
        BY Zenon, <2>2, <1>t DEF LoopFlags, Types, SpeakerStates
      <3>3. bits' \in [Speakers -> SUBSET SpeakerEventGroupBits]
        BY Zenon, <2>2, <1>t DEF LoopFlags, Types
      <3> QED BY Zenon, <1>t, <2>2, <3>1, <3>2, <3>3 DEF LoopFlags, Types, clientVars
    <2>3. CASE LoopStopped(s)
      <3>1. main' \in Places
        BY Zenon, <2>3, <1>t DEF LoopStopped, Places, Types
      <3>2. task' \in [Speakers -> TaskLocals]
        <4>1. Task("none") \in TaskLocals
          BY Zenon DEF Task, TaskLocals
        <4> QED BY Zenon, <2>3, <1>t, <4>1 DEF LoopStopped, Types
      <3>3. bits' \in [Speakers -> SUBSET SpeakerEventGroupBits] /\ dma' \in Nat
        BY Zenon, <2>3, <1>t DEF LoopStopped, Types
      <3>4. port' \in Ports
        BY Zenon, <2>3, <1>t, StopTxOutcome DEF LoopStopped, Types, OwnerInv, PortInv
      <3> QED BY Zenon, <1>t, <2>3, <3>1, <3>2, <3>3, <3>4 DEF LoopStopped, Types, clientVars
    <2>4. CASE LoopReset(s)
      <3>1. main' \in Places
        BY Zenon, <2>4, <1>t DEF LoopReset, Places, Types
      <3>2. state_' \in [Speakers -> SpeakerStates]
        BY Zenon, <2>4, <1>t DEF LoopReset, Types, SpeakerStates, SetState
      <3>3. stop_asked' \in [Speakers -> BOOLEAN]
        BY Zenon, <2>4, <1>t DEF LoopReset, Types
      <3> QED BY Zenon, <1>t, <2>4, <3>1, <3>2, <3>3 DEF LoopReset, Types
    <2>5. CASE LoopStart(s)
      <3>1. main' \in Places
        BY SMTT(30), <2>5, LoopStartOutcome DEF Places, Idle, LoopStarts
      <3>2. Task("begin") \in TaskLocals
        BY Zenon DEF Task, TaskLocals
      <3>a. /\ task' = task \/ task' = [task EXCEPT ![s] = Task("begin")]
            /\ state_' = state_ \/ state_' = [state_ EXCEPT ![s] = "STOPPED"]
        BY Zenon, <2>5, LoopStartOutcome DEF LoopStarts
      <3>b. task \in [Speakers -> TaskLocals] /\ state_ \in [Speakers -> SpeakerStates]
        BY Zenon, <1>t DEF Types
      <3>3. task' \in [Speakers -> TaskLocals] /\ state_' \in [Speakers -> SpeakerStates]
        BY Zenon, <3>2, <3>a, <3>b DEF SpeakerStates
      <3>4. bits' \in [Speakers -> SUBSET SpeakerEventGroupBits] /\ events' \in [Speakers -> Nat]
        BY SMTT(30), <2>5, <1>t DEF LoopStart, Types
      <3>5. port' \in Ports /\ faults' \in 0..MaxFaults /\ stop_asked' \in [Speakers -> BOOLEAN]
        BY Zenon, <2>5, LoopStartPort
      <3> QED BY Zenon, <1>t, <2>5, <3>1, <3>3, <3>4, <3>5 DEF LoopStart, Types
    <2>6. CASE ErrorEnds(s)
      BY Zenon, <1>t, <2>6 DEF ErrorEnds, Types, clientVars
    <2> QED BY Zenon, <1>5, <2>1, <2>2, <2>3, <2>4, <2>5, <2>6 DEF SpeakerLoop
  <1>6. ASSUME NEW s \in Speakers, TaskStep(s) PROVE Types'
    <2>1. task' \in [Speakers -> TaskLocals] /\ UNCHANGED <<state_, main, client, route, switching>>
      BY Zenon, <1>t, <1>6, TaskOutcome
    <2>2. stop_asked' = stop_asked
      BY Zenon, <1>6 DEF TaskStep, TaskBegins, TaskStops, TaskIterates, TaskFrees, clientVars
    <2>3. faults' \in 0..MaxFaults
      BY SMTT(30), <1>6, <1>t, <1>f DEF TaskStep, TaskBegins, TaskStops, TaskIterates, TaskFrees, Types
    <2>4. CASE ~TaskIterates(s)
      <3>1. UNCHANGED <<port, events, dma>>
        BY Zenon, <1>6, <2>4 DEF TaskStep, TaskBegins, TaskStops, TaskFrees
      <3>2. ring' \in [Speakers -> Nat]
        BY SMTT(30), <1>6, <2>4, <1>t DEF TaskStep, TaskBegins, TaskStops, TaskFrees, Types
      <3>3. bits' \in [Speakers -> SUBSET SpeakerEventGroupBits]
        BY SMTT(30), <1>6, <2>4, <1>t DEF TaskStep, TaskBegins, TaskStops, TaskFrees, Types, SetBits, SpeakerEventGroupBits
      <3> QED BY Zenon, <1>t, <2>1, <2>2, <2>3, <3>1, <3>2, <3>3 DEF Types
    <2>5. CASE TaskIterates(s)
      <3>1. events' = [events EXCEPT ![s] = 0] /\ ring' \in [Speakers -> Nat]
        BY Zenon, <1>t, <2>5, IterationOutcome
      <3>2. PICK x \in TaskLocals :
              Rests(s, x) \/ SendsFirst(s, x) \/ SendsMore(s, x) \/ Finishes(s, x)
        BY Zenon, <1>t, <2>5, IterationOutcome
      <3>3. bits' \in [Speakers -> SUBSET SpeakerEventGroupBits]
        BY SMTT(30), <1>t, <3>2 DEF Rests, SendsFirst, SendsMore, Finishes, CommandsRead, Types, SpeakerEventGroupBits
      <3>4. dma' \in Nat
        BY SMTT(30), <1>t, <3>2 DEF Rests, SendsFirst, SendsMore, Finishes, Types
      <3>5. port' \in Ports
        BY Zenon, <1>t, <3>2 DEF Rests, SendsFirst, SendsMore, Finishes, Types, Ports, ChanStates
      <3>6. events' \in [Speakers -> Nat]
        BY Zenon, <1>t, <3>1 DEF Types
      <3> QED BY Zenon, <1>t, <2>1, <2>2, <2>3, <3>1, <3>3, <3>4, <3>5, <3>6 DEF Types
    <2> QED BY Zenon, <2>4, <2>5
  <1> QED BY Zenon, <1>1, <1>2, <1>3, <1>4, <1>5, <1>6 DEF SpeakerNext

(* ... and the channel of the one that has a task.                         *)
LEMMA PortStep ==
  ASSUME InTime, OwnerInv, SpeakerNext
  PROVE  PortInv'
  <1>t. Types /\ PortInv /\ \A s \in Speakers : SpeakerInv(s)
    BY Zenon DEF OwnerInv, LifeInv
  <1>r. \A s \in Speakers : Alive(s) => s = route
    BY Zenon, <1>t DEF SpeakerInv, OnlyRouteIsActive
  <1>k. ASSUME UNCHANGED port, \A s \in Speakers : Alive(s)' <=> Alive(s)
        PROVE  PortInv'
    BY Zenon, <1>t, <1>k DEF PortInv, TxSound
  <1>1. CASE ClientStep \/ UserStops \/ UserPauses \/ SwitchBegins \/ SwitchEnds \/ DmaSent
    <2>1. UNCHANGED <<port, task>>
      BY Zenon, <1>1 DEF ClientStep, PlayStarts, StartWritesState, StartCommands, PlayWrites, HasBufferedData,
                  UserStops, UserPauses, SwitchBegins, SwitchEnds, DmaSent, speakerVars
    <2> QED BY Zenon, <1>k, <2>1 DEF Alive
  <1>2. ASSUME NEW s \in Speakers, LoopReads(s) \/ LoopFlags(s) \/ LoopReset(s) \/ ErrorEnds(s)
        PROVE  PortInv'
    <2>1. UNCHANGED <<port, task>>
      BY Zenon, <1>2 DEF LoopReads, LoopFlags, LoopReset, ErrorEnds, speakerVars
    <2> QED BY Zenon, <1>k, <2>1 DEF Alive
  <1>3. ASSUME NEW s \in Speakers, LoopStopped(s)
        PROVE  PortInv'
    <2>1. TxSound(port') /\ port'.tx # "RUNNING"
      BY Zenon, <1>3, <1>t, StopTxOutcome DEF LoopStopped, PortInv, Types
    <2>2. At(s) = "stopped"
      BY Zenon, <1>3 DEF LoopStopped, At
    <2>3. Alive(s)
      BY Zenon, <1>t, <2>2 DEF SpeakerInv, SeenHolds, Alive
    <2>4. \A t \in Speakers : ~Alive(t)'
      BY Zenon, <1>3, <1>t, <1>r, <2>3 DEF LoopStopped, Alive, Types, Task
    <2> QED BY Zenon, <2>1, <2>4 DEF PortInv, TxSound
  <1>4. ASSUME NEW s \in Speakers, LoopStart(s)
        PROVE  PortInv'
    <2>1. CASE ~StartDue(s)
      BY Zenon, <1>4, <1>k, <2>1, LoopStartOutcome, LoopStartPort DEF Alive, LoopStarts
    <2>2. CASE StartDue(s)
      <3>1. TxSound(port') /\ ~Alive(s) /\ s = route
        BY Zenon, <1>4, <2>2, LoopStartOutcome, LoopStartPort DEF LoopStarts
      <3>2. CASE task' = [task EXCEPT ![s] = Task("begin")] /\ port'.tx = "RUNNING"
        <4>1. Alive(s)'
          BY Zenon, <1>t, <3>2 DEF Types, Task, Alive
        <4> QED BY Zenon, <3>1, <3>2, <4>1 DEF PortInv, TxSound
      <3>3. CASE task' = task /\ port'.tx # "RUNNING"
        BY Zenon, <1>r, <3>1, <3>3 DEF PortInv, TxSound, Alive
      <3> QED BY Zenon, <1>4, <2>2, <3>2, <3>3, LoopStartPort
    <2> QED BY Zenon, <2>1, <2>2
  <1>5. ASSUME NEW s \in Speakers, TaskStep(s)
        PROVE  PortInv'
    <2>1. Alive(s) /\ Alive(s)' /\ \A t \in Speakers \ {s} : Alive(t)' <=> Alive(t)
      BY Zenon, <1>5, <1>t, TaskOutcome DEF Alive, Moves
    <2>2. CASE ~TaskIterates(s)
      <3>1. UNCHANGED port
        BY Zenon, <1>5, <2>2 DEF TaskStep, TaskBegins, TaskStops, TaskFrees
      <3> QED BY Zenon, <2>1, <3>1, <1>k
    <2>3. CASE TaskIterates(s)
      <3>1. PICK x \in TaskLocals :
              Rests(s, x) \/ SendsFirst(s, x) \/ SendsMore(s, x) \/ Finishes(s, x)
        BY Zenon, <1>t, <2>3, IterationOutcome
      <3>2. TxSound(port') /\ port'.tx = "RUNNING"
        BY Zenon, <1>t, <2>1, <3>1 DEF Rests, SendsFirst, SendsMore, Finishes, Types, Ports, PortInv, TxSound
      <3> QED BY Zenon, <2>1, <3>2 DEF PortInv, TxSound
    <2> QED BY Zenon, <2>2, <2>3
  <1> QED BY Zenon, <1>1, <1>2, <1>3, <1>4, <1>5 DEF SpeakerNext, SpeakerLoop

(* The microphone beside the speakers.                                     *)
LEMMA MicrophoneApart ==
  ASSUME OwnerInv,
         ListenerStarts \/ ListenerStops \/ MicLoop \/ MicErrorEnds \/ MicTask \/ UNCHANGED vars
  PROVE  OwnerInv'
  <1>t. Types /\ PortInv /\ LifeInv
    BY Zenon DEF OwnerInv
  <1>1. UNCHANGED <<speakerVars, main, clientVars>>
    BY Zenon DEF ListenerStarts, ListenerStops, MicLoop, MicErrorEnds, MicTask, vars
  <1>2. UNCHANGED <<state_, bits, task, ring, events, dma, main, client, route, switching, stop_asked>>
    BY Zenon, <1>1 DEF speakerVars, clientVars
  <1>3. LifeInv'
    BY SMTT(30), <1>t, <1>2 DEF LifeInv, ClientInv, SpeakerInv, BitsTell, OnlyRouteIsActive, SeenHolds, Alive, Noticed, At
  <1>4. CASE UNCHANGED <<port, faults>>
    BY Zenon, <1>t, <1>2, <1>3, <1>4 DEF OwnerInv, Types, PortInv, TxSound, Alive
  <1>5. CASE MicLoop
    <2>1. Types'
      BY Zenon, <1>t, <1>2, <1>5, MicLoopPort DEF Types
    <2>2. TxSound(port') /\ (port.tx_handle_ => port'.tx = port.tx)
          /\ (~port.tx_handle_ => port'.tx # "RUNNING")
      BY Zenon, <1>5, MicLoopPort
    <2>3. PortInv'
      BY Zenon, <1>t, <1>2, <2>2 DEF PortInv, TxSound, Alive
    <2> QED BY Zenon, <1>3, <2>1, <2>3 DEF OwnerInv
  <1> QED BY Zenon, <1>4, <1>5 DEF ListenerStarts, ListenerStops, MicErrorEnds, MicTask, vars

(* OwnerInv at the start ...                                               *)
LEMMA OwnerInit ==
  ASSUME Init
  PROVE  OwnerInv
  <1> USE DEF Init, PortInit, SpeakerInit
  <1>1. Task("none") \in TaskLocals /\ Task("none").pc = "none"
    BY Zenon DEF Task, TaskLocals
  <1>2. Idle \in Places /\ Idle.at = "idle" /\ Idle.who = Nobody
    BY Zenon DEF Idle, Places
  <1>3. NoChannels \in Ports /\ TxSound(NoChannels) /\ NoChannels.tx = "none"
    BY Zenon DEF NoChannels, Ports, ChanStates, TxSound
  <1>4. Types
    BY SMTT(30), <1>1, <1>2, <1>3, FaultsAssumption DEF Types, SpeakerStates
  <1>5. \A s \in Speakers : task[s].pc = "none" /\ bits[s] = {} /\ state_[s] = "STOPPED" /\ At(s) = "idle"
    BY Zenon, <1>1, <1>2, SpeakersAssumption DEF At
  <1>6. LifeInv
    BY Zenon, <1>5 DEF LifeInv, ClientInv, SpeakerInv, BitsTell, OnlyRouteIsActive, SeenHolds, Alive, Noticed
  <1>7. PortInv
    BY Zenon, <1>3, <1>5 DEF PortInv, Alive
  <1> QED BY Zenon, <1>4, <1>6, <1>7 DEF OwnerInv

(* ... and in every step.                                                  *)
LEMMA OwnerStep ==
  ASSUME InTime, OwnerInv, [Next]_vars
  PROVE  OwnerInv'
  <1>1. CASE SpeakerNext
    <2>1. LifeInv'
      BY Zenon, <1>1, ClientLife, UserLife, LoopLife, TaskLife DEF SpeakerNext
    <2> QED BY Zenon, <1>1, <2>1, TypesStep, PortStep DEF OwnerInv
  <1> QED BY Zenon, <1>1, MicrophoneApart DEF Next, OfSpeakers

(* OwnerInv says that the channel has one owner.                           *)
LEMMA OwnerImplies ==
  ASSUME OwnerInv
  PROVE  ChannelHasOneOwner
  BY Zenon DEF OwnerInv, LifeInv, PortInv, TxSound, SpeakerInv, OnlyRouteIsActive, Alive, ChannelHasOneOwner

(* With tasks and loops in time, the speakers never get into each other's  *)
(* way on the channel they share, and it is never lost: for any number of  *)
(* speakers and clients' calls, and whatever of the driver fails.          *)
THEOREM OneOwner == InTime => (Spec => []ChannelHasOneOwner)
  <1> SUFFICES ASSUME InTime PROVE Spec => []ChannelHasOneOwner
    OBVIOUS
  <1>1. Init => OwnerInv
    BY Zenon, OwnerInit
  <1>2. OwnerInv /\ [Next]_vars => OwnerInv'
    BY Zenon, OwnerStep
  <1>3. OwnerInv => ChannelHasOneOwner
    BY Zenon, OwnerImplies
  <1> QED BY <1>1, <1>2, <1>3, PTL DEF Spec

-----------------------------------------------------------------------------
(* The channel of the microphone.  While the driver has not failed it runs *)
(* as long as there is a task that reads it, also one that is about to     *)
(* begin or has just ended; loop() does not start it a second time.        *)
MicRxInv ==
  /\ mic_state_ = "STARTING" /\ mic_task = "run" => "TASK_RUNNING" \in mic_bits
  /\ faults = MaxFaults => RxSound(port)
  /\ faults = MaxFaults /\ mic_task # "none" => port.rx_handle_ /\ port.rx = "RUNNING"

(* What the speakers do to the RX channel: nothing.                        *)
LEMMA SpeakersLeaveRx ==
  ASSUME InTime, OwnerInv, SpeakerNext
  PROVE  /\ faults' <= faults
         /\ port.rx_handle_ => port'.rx_handle_ /\ port'.rx = port.rx
         /\ RxSound(port) /\ faults' = faults => RxSound(port')
  <1>t. Types /\ PortInv
    BY Zenon DEF OwnerInv
  <1>f. faults \in Nat /\ port \in Ports
    BY Zenon, <1>t, FaultBounds
  <1>1. CASE UNCHANGED <<port, faults>>
    BY SMTT(30), <1>1, <1>f DEF RxSound
  <1>2. CASE ClientStep \/ UserStops \/ UserPauses \/ SwitchBegins \/ SwitchEnds \/ DmaSent
    BY Zenon, <1>1, <1>2 DEF ClientStep, PlayStarts, StartWritesState, StartCommands, PlayWrites, HasBufferedData,
                      UserStops, UserPauses, SwitchBegins, SwitchEnds, DmaSent
  <1>3. ASSUME NEW s \in Speakers, LoopReads(s) \/ LoopFlags(s) \/ LoopReset(s) \/ ErrorEnds(s)
        PROVE  UNCHANGED <<port, faults>>
    BY Zenon, <1>3 DEF LoopReads, LoopFlags, LoopReset, ErrorEnds
  <1>4. ASSUME NEW s \in Speakers, LoopStopped(s)
        PROVE  /\ faults' <= faults /\ port'.rx_handle_ = port.rx_handle_ /\ port'.rx = port.rx
               /\ RxSound(port) => RxSound(port')
    <2>1. /\ faults' = faults /\ port'.rx_handle_ = port.rx_handle_ /\ port'.rx = port.rx
          /\ RxSound(port) => RxSound(port')
      BY Zenon, <1>4, <1>t, <1>f, StopTxOutcome DEF LoopStopped, PortInv
    <2> QED BY SMTT(30), <1>f, <2>1
  <1>5. ASSUME NEW s \in Speakers, TaskStep(s)
        PROVE  /\ faults' <= faults /\ port'.rx_handle_ = port.rx_handle_ /\ port'.rx = port.rx
               /\ RxSound(port) => RxSound(port')
    <2>1. CASE ~TaskIterates(s)
      BY SMTT(30), <1>5, <1>f, <2>1 DEF TaskStep, TaskBegins, TaskStops, TaskFrees, RxSound
    <2>2. CASE TaskIterates(s)
      <3>1. PICK x \in TaskLocals :
              Rests(s, x) \/ SendsFirst(s, x) \/ SendsMore(s, x) \/ Finishes(s, x)
        BY Zenon, <1>t, <2>2, IterationOutcome
      <3>2. port' = port \/ port' = [port EXCEPT !.tx = "RUNNING", !.on_sent = s]
        BY Zenon, <3>1 DEF Rests, SendsFirst, SendsMore, Finishes
      <3>3. faults' = faults
        BY Zenon, <2>2 DEF TaskIterates
      <3>4. port'.rx_handle_ = port.rx_handle_ /\ port'.rx = port.rx /\ port'.tx_handle_ = port.tx_handle_
        BY Zenon, <1>f, <3>2 DEF Ports
      <3> QED BY SMTT(30), <1>f, <3>3, <3>4 DEF RxSound
    <2> QED BY Zenon, <2>1, <2>2
  <1>6. ASSUME NEW s \in Speakers, LoopStart(s)
        PROVE  /\ faults' <= faults
               /\ port.rx_handle_ => port'.rx_handle_ /\ port'.rx = port.rx
               /\ RxSound(port) /\ faults' = faults => RxSound(port')
    BY Zenon, <1>6, LoopStartPort
  <1> QED BY Zenon, <1>1, <1>2, <1>3, <1>4, <1>5, <1>6 DEF SpeakerNext, SpeakerLoop

(* A call of loop() keeps MicRxInv.                                        *)
LEMMA MicLoopRx ==
  ASSUME InTime, OwnerInv, MicInv, MicRxInv, MicLoop
  PROVE  MicRxInv'
  <1>f. /\ faults \in 0..MaxFaults /\ faults \in Nat /\ MaxFaults \in Nat /\ port \in Ports /\ TxSound(port)
        /\ faults' \in 0..MaxFaults /\ faults' <= faults
    BY Zenon, MicLoopPort, FaultBounds DEF OwnerInv, PortInv
  <1>m. /\ mic_task \in {"none", "run", "stopped"} /\ MicTaskInv
        /\ mic_state_ \in {"STOPPED", "STARTING", "RUNNING", "STOPPING"}
    BY Zenon DEF MicInv, MicTypeOK, MicLoop, InTime
  <1>1. mic_state_' = "STARTING" /\ mic_task' = "run" => "TASK_RUNNING" \in mic_bits'
    BY Zenon, LoopOutcome DEF Outcome, Creates, Waits, TaskWasRunning, Stops, TaskHadEnded, GoesOn, MicRxInv
  <1>2. ASSUME faults' = MaxFaults PROVE faults = MaxFaults /\ RxSound(port) /\ RxSound(port')
    BY SMTT(30), <1>2, <1>f, MicLoopPort DEF MicRxInv
  <1>3. ASSUME faults' = MaxFaults, mic_task' # "none" PROVE port'.rx_handle_ /\ port'.rx = "RUNNING"
    <2> DEFINE p == Seen.port
               t == Seen.task
    <2>1. CASE ~(Wanted(Seen.state) = "STARTING" /\ ~Seen.error)
      <3>1. port' = p /\ mic_task' = t
        BY Zenon, <2>1 DEF MicLoop
      <3>2. "TASK_STOPPED" \notin mic_bits /\ port' = port /\ mic_task' = mic_task
        BY Zenon, <3>1, <1>3 DEF Seen
      <3> QED BY Zenon, <1>2, <1>3, <3>2 DEF MicRxInv
    <2>2. CASE Wanted(Seen.state) = "STARTING" /\ ~Seen.error
      <3>1. MicStarts(p, t)
        BY Zenon, <2>2 DEF MicLoop
      <3>2. t = "none"
        <4>1. CASE "TASK_STOPPED" \in mic_bits
          BY Zenon, <4>1 DEF Seen
        <4>2. CASE "TASK_STOPPED" \notin mic_bits
          <5>1. Seen.state \in {"STARTING", "STOPPED"}
            BY Zenon, <2>2, <1>m DEF Wanted
          <5>2. Seen.state = mic_state_ /\ "TASK_RUNNING" \notin mic_bits /\ t = mic_task
            BY Zenon, <4>2, <5>1 DEF Seen
          <5> QED BY Zenon, <4>2, <5>1, <5>2, <1>m DEF MicTaskInv, MicRxInv
        <4> QED BY Zenon, <4>1, <4>2
      <3>3. p \in Ports /\ TxSound(p) /\ RxSound(p)
        <4>1. p \in {port, stop_rx(port)}
          BY Zenon DEF Seen
        <4> QED BY Zenon, <1>2, <1>3, <1>f, <4>1, StopRxOutcome DEF TxSound
      <3> HIDE DEF p, t
      <3>4. PICK r \in start_rx(p) : r.ok /\ port' = r.port
        BY Zenon, <1>3, <3>1, <3>2 DEF MicStarts
      <3>5. r.port.rx = "RUNNING" /\ RxSound(r.port)
        BY Zenon, <1>f, <3>3, <3>4, StartRxOutcome
      <3> QED BY Zenon, <3>4, <3>5 DEF RxSound
    <2> QED BY Zenon, <2>1, <2>2
  <1> QED BY Zenon, <1>1, <1>2, <1>3 DEF MicRxInv

(* So does every step.                                                     *)
LEMMA MicRxStep ==
  ASSUME InTime, OwnerInv, MicInv, MicRxInv, [Next]_vars
  PROVE  MicRxInv'
  <1>f. faults \in 0..MaxFaults /\ faults \in Nat /\ MaxFaults \in Nat
    BY Zenon, FaultBounds DEF OwnerInv
  <1>1. CASE OfSpeakers(SpeakerNext)
    <2>1. SpeakerNext /\ UNCHANGED <<mic_state_, mic_bits, mic_task>>
      BY Zenon, <1>1 DEF OfSpeakers, micVars
    <2>2. /\ faults' <= faults
          /\ port.rx_handle_ => port'.rx_handle_ /\ port'.rx = port.rx
          /\ RxSound(port) /\ faults' = faults => RxSound(port')
      BY Zenon, <2>1, SpeakersLeaveRx
    <2>3. faults' = MaxFaults => faults = MaxFaults
      BY SMTT(30), <1>f, <2>2
    <2> QED BY Zenon, <2>1, <2>2, <2>3 DEF MicRxInv
  <1>2. CASE ListenerStarts \/ ListenerStops \/ MicErrorEnds \/ UNCHANGED vars
    BY Zenon, <1>2 DEF ListenerStarts, ListenerStops, MicErrorEnds, vars, micVars, MicRxInv, RxSound
  <1>3. CASE MicTask
    BY Zenon, <1>3 DEF MicTask, MicRxInv, RxSound
  <1>4. CASE MicLoop
    BY Zenon, <1>4, MicLoopRx
  <1> QED BY Zenon, <1>1, <1>2, <1>3, <1>4 DEF Next

(* With tasks in time and a driver that does not fail, the task of a       *)
(* microphone that runs never reads from a channel that is off or gone,    *)
(* whatever speakers share the port with it.                               *)
THEOREM MicHasChannel == InTime => (Spec => []MicReadsRunningChannel)
  <1> SUFFICES ASSUME InTime PROVE Spec => []MicReadsRunningChannel
    OBVIOUS
  <1> DEFINE Inv == OwnerInv /\ MicInv /\ MicRxInv
  <1>1. Init => Inv
    <2>1. Init => MicInv
      BY SMTT(30), ListenersAssumption DEF Init, MicInv, MicTypeOK, MicTaskInv
    <2>2. Init => MicRxInv
      BY SMTT(30) DEF Init, MicRxInv, PortInit, NoChannels, RxSound
    <2> QED BY Zenon, <2>1, <2>2, OwnerInit
  <1>2. Inv /\ [Next]_vars => Inv'
    BY Zenon, OwnerStep, MicInvStep, MicRxStep
  <1>3. Inv => MicReadsRunningChannel
    BY Zenon DEF MicRxInv, MicReadsRunningChannel
  <1> QED BY <1>1, <1>2, <1>3, PTL DEF Spec

-----------------------------------------------------------------------------
(* Why a task stops.  As long as the driver has not failed, a COMMAND_STOP *)
(* in the event group is one that was asked for since the speaker was last *)
(* STOPPED: loop() clears the event group when no one can set it, because  *)
(* the channel, and with it the interrupt, is off by then.                 *)
AskedInv ==
  \A s \in Speakers :
    /\ At(s) = "reset" => port.tx # "RUNNING" /\ "COMMAND_STOP" \notin bits[s]
    /\ faults = MaxFaults /\ "COMMAND_STOP" \in bits[s] => stop_asked[s]

(* A step that asks no speaker to stop.                                    *)
LEMMA AsksNobody ==
  ASSUME AskedInv, faults \in 0..MaxFaults, faults' <= faults, faults' \in 0..MaxFaults,
         \A s \in Speakers :
           /\ "COMMAND_STOP" \in bits'[s] => "COMMAND_STOP" \in bits[s]
           /\ At(s)' = "reset" => At(s) = "reset" /\ (port.tx # "RUNNING" => port'.tx # "RUNNING"),
         faults' = faults => stop_asked' = stop_asked
  PROVE  AskedInv'
  <1>1. faults' = MaxFaults => faults = MaxFaults /\ stop_asked' = stop_asked
    BY SMTT(30), FaultsAssumption
  <1>2. ASSUME NEW s \in Speakers
        PROVE  /\ At(s)' = "reset" => port'.tx # "RUNNING" /\ "COMMAND_STOP" \notin bits'[s]
               /\ faults' = MaxFaults /\ "COMMAND_STOP" \in bits'[s] => stop_asked'[s]
    BY Zenon, <1>1 DEF AskedInv
  <1> QED BY Zenon, <1>2 DEF AskedInv

(* Every step keeps AskedInv.                                              *)
LEMMA AskedStep ==
  ASSUME InTime, OwnerInv, MicRxInv, AskedInv, [Next]_vars, OwnerInv'
  PROVE  AskedInv'
  <1>t. Types /\ PortInv
    BY Zenon DEF OwnerInv
  <1>f. faults \in 0..MaxFaults /\ faults \in Nat /\ MaxFaults \in Nat /\ faults' \in 0..MaxFaults
    BY Zenon, <1>t, FaultBounds DEF OwnerInv, Types
  <1>i. main = Idle => \A s \in Speakers : At(s) = "idle"
    BY Zenon, IdleLoop
  <1>1. CASE ClientStep
    <2>1. UNCHANGED <<port, faults, main, stop_asked>>
      BY Zenon, <1>1 DEF ClientStep, PlayStarts, StartWritesState, StartCommands, PlayWrites, HasBufferedData
    <2>2. \A s \in Speakers : "COMMAND_STOP" \in bits'[s] => "COMMAND_STOP" \in bits[s]
      <3>1. bits' = bits \/ bits' = [bits EXCEPT ![route] = @ \union {"COMMAND_START"}]
        BY Zenon, <1>1 DEF ClientStep, PlayStarts, StartWritesState, StartCommands, PlayWrites, HasBufferedData,
                           speakerVars, SetBits
      <3>2. bits \in [Speakers -> SUBSET SpeakerEventGroupBits]
        BY Zenon, <1>t DEF Types
      <3> QED BY SMTT(30), <3>1, <3>2
    <2>3. \A s \in Speakers : At(s)' = At(s)
      BY Zenon, <2>1 DEF At
    <2>4. faults' <= faults
      BY SMTT(30), <1>f, <2>1
    <2> QED BY Zenon, <1>f, <2>1, <2>2, <2>3, <2>4, AsksNobody
  <1>2. CASE UserStops \/ UserPauses \/ SwitchBegins
    <2>1. UNCHANGED <<port, faults, main>>
      BY Zenon, <1>2 DEF UserStops, UserPauses, SwitchBegins
    <2>2. main = Idle
      BY Zenon, <1>2 DEF UserStops, UserPauses, SwitchBegins, Request
    <2>3. \A s \in Speakers : At(s)' = "idle"
      BY Zenon, <1>i, <2>1, <2>2 DEF At
    <2>4. UNCHANGED <<bits, stop_asked>> \/ \E b \in {"COMMAND_STOP", "COMMAND_STOP_GRACEFULLY"} : stop_(route, b)
      BY Zenon, <1>2 DEF UserStops, UserPauses, SwitchBegins
    <2>5. ASSUME NEW s \in Speakers, "COMMAND_STOP" \in bits'[s]
          PROVE  stop_asked'[s] \/ ("COMMAND_STOP" \in bits[s] /\ stop_asked'[s] = stop_asked[s])
      BY Zenon, <1>t, <2>4, <2>5 DEF stop_, SetBits, Types
    <2> QED BY Zenon, <2>1, <2>3, <2>5 DEF AskedInv
  <1>3. CASE SwitchEnds
    <2>1. UNCHANGED <<port, faults, main, stop_asked, bits>>
      BY Zenon, <1>3 DEF SwitchEnds, speakerVars
    <2> QED BY Zenon, <2>1 DEF AskedInv, At
  <1>4. CASE DmaSent
    <2>1. UNCHANGED <<port, faults, main>> /\ port.tx = "RUNNING"
      BY Zenon, <1>4 DEF DmaSent
    <2>2. port.on_sent \in Speakers \union {Nobody}
      BY Zenon, <1>t DEF Types, Ports
    <2>3. \/ UNCHANGED <<bits, stop_asked>>
          \/ /\ port.on_sent \in Speakers
             /\ bits' = [bits EXCEPT ![port.on_sent] = @ \union {"ERR_DROPPED_EVENT", "COMMAND_STOP"}]
             /\ stop_asked' = [stop_asked EXCEPT ![port.on_sent] = TRUE]
      BY Zenon, <1>4, <2>2 DEF DmaSent, SetBits
    <2>4. ASSUME NEW s \in Speakers, "COMMAND_STOP" \in bits'[s]
          PROVE  stop_asked'[s] \/ ("COMMAND_STOP" \in bits[s] /\ stop_asked'[s] = stop_asked[s])
      BY Zenon, <1>t, <2>3, <2>4 DEF Types
    <2> QED BY Zenon, <2>1, <2>4 DEF AskedInv, At
  <1>5. ASSUME NEW s \in Speakers, LoopReads(s) \/ ErrorEnds(s) PROVE AskedInv'
    <2>1. UNCHANGED <<port, faults, bits, stop_asked>> /\ main = Idle /\ (main' = main \/ main'.at = "flags")
      BY SMTT(30), <1>5 DEF LoopReads, ErrorEnds, speakerVars, clientVars
    <2>2. \A t \in Speakers : At(t)' # "reset"
      BY Zenon, <1>i, <2>1 DEF At
    <2> QED BY Zenon, <2>1, <2>2 DEF AskedInv
  <1>6. ASSUME NEW s \in Speakers, LoopFlags(s) PROVE AskedInv'
    <2>1. UNCHANGED <<port, faults, stop_asked>> /\ main'.at \in {"start", "stopped"}
      BY Zenon, <1>6, <1>t DEF LoopFlags, clientVars, Types, Places
    <2>2. \A t \in Speakers : "COMMAND_STOP" \in bits'[t] => "COMMAND_STOP" \in bits[t]
      BY Zenon, <1>6, <1>t DEF LoopFlags, Types
    <2> QED BY SMTT(30), <1>f, <2>1, <2>2, AsksNobody DEF At
  <1>7. ASSUME NEW s \in Speakers, LoopStopped(s) PROVE AskedInv'
    <2>1. UNCHANGED <<faults, stop_asked>> /\ main'.who = s
      BY Zenon, <1>7, <1>t DEF LoopStopped, clientVars, Types, Places
    <2>2. bits'[s] = {} /\ \A t \in Speakers : t # s => bits'[t] = bits[t]
      BY Zenon, <1>7, <1>t DEF LoopStopped, Types
    <2>3. port'.tx # "RUNNING"
      BY Zenon, <1>7, <1>t, StopTxOutcome DEF LoopStopped, PortInv, Types
    <2> QED BY Zenon, <2>1, <2>2, <2>3 DEF AskedInv, At
  <1>8. ASSUME NEW s \in Speakers, LoopReset(s) PROVE AskedInv'
    <2>1. UNCHANGED <<port, faults, bits>> /\ main'.at = "start" /\ At(s) = "reset"
      BY Zenon, <1>8, <1>t DEF LoopReset, Types, Places, At
    <2>2. \A t \in Speakers : t # s => stop_asked'[t] = stop_asked[t]
      BY Zenon, <1>8, <1>t DEF LoopReset, Types
    <2>3. "COMMAND_STOP" \notin bits[s]
      BY Zenon, <2>1 DEF AskedInv
    <2> QED BY Zenon, <2>1, <2>2, <2>3 DEF AskedInv, At
  <1>9. ASSUME NEW s \in Speakers, LoopStart(s) PROVE AskedInv'
    <2>1. main' = Idle /\ \A t \in Speakers : At(t)' = "idle"
      BY Zenon, <1>9, LoopStartOutcome, IdleLoopNext DEF LoopStarts
    <2>2. \A t \in Speakers : "COMMAND_STOP" \in bits'[t] => "COMMAND_STOP" \in bits[t]
      BY Zenon, <1>9, <1>t DEF LoopStart, Types
    <2>3. faults' <= faults /\ (RxSound(port) /\ faults' = faults => stop_asked' = stop_asked)
      BY Zenon, <1>9, LoopStartPort
    <2>4. faults' = MaxFaults => faults = MaxFaults /\ stop_asked' = stop_asked
      BY SMTT(30), <1>f, <2>3 DEF MicRxInv
    <2> QED BY Zenon, <2>1, <2>2, <2>4 DEF AskedInv
  <1>10. ASSUME NEW s \in Speakers, TaskStep(s) PROVE AskedInv'
    <2>1. stop_asked' = stop_asked /\ main' = main /\ faults' <= faults
      BY SMTT(30), <1>10, <1>f DEF TaskStep, TaskBegins, TaskStops, TaskIterates, TaskFrees, clientVars
    <2>2. port.tx = "RUNNING"
      BY Zenon, <1>10, <1>t, TaskOutcome DEF PortInv, Alive, Moves
    <2>3. ASSUME NEW t \in Speakers PROVE "COMMAND_STOP" \in bits'[t] => "COMMAND_STOP" \in bits[t]
      <3>1. CASE ~TaskIterates(s)
        BY SMTT(30), <1>10, <1>t, <3>1 DEF TaskStep, TaskBegins, TaskStops, TaskFrees, SetBits, Types
      <3>2. CASE TaskIterates(s)
        <4>1. PICK x \in TaskLocals :
                Rests(s, x) \/ SendsFirst(s, x) \/ SendsMore(s, x) \/ Finishes(s, x)
          BY Zenon, <1>t, <3>2, IterationOutcome
        <4> QED BY SMTT(30), <1>t, <4>1 DEF Rests, SendsFirst, SendsMore, Finishes, CommandsRead, Types
      <3> QED BY Zenon, <3>1, <3>2
    <2>4. \A t \in Speakers : At(t)' = At(t) /\ At(t) # "reset"
      BY Zenon, <2>1, <2>2 DEF AskedInv, At
    <2> QED BY Zenon, <1>f, <2>1, <2>3, <2>4, AsksNobody
  <1>11. CASE ListenerStarts \/ ListenerStops \/ MicErrorEnds \/ MicTask \/ UNCHANGED vars
    <2>1. UNCHANGED <<port, faults, bits, main, stop_asked>>
      BY Zenon, <1>11 DEF ListenerStarts, ListenerStops, MicErrorEnds, MicTask, vars, speakerVars, clientVars
    <2> QED BY Zenon, <2>1 DEF AskedInv, At
  <1>12. CASE MicLoop
    <2>1. UNCHANGED <<bits, main, stop_asked>> /\ main = Idle
      BY Zenon, <1>12 DEF MicLoop, speakerVars, clientVars
    <2>2. \A s \in Speakers : At(s)' = "idle"
      BY Zenon, <1>i, <2>1 DEF At
    <2>3. faults' <= faults
      BY Zenon, <1>12, MicLoopPort
    <2> QED BY Zenon, <1>f, <2>1, <2>2, <2>3, AsksNobody
  <1> QED BY SMTT(30), <1>1, <1>2, <1>3, <1>4, <1>5, <1>6, <1>7, <1>8, <1>9, <1>10, <1>11, <1>12
          DEF Next, OfSpeakers, SpeakerNext, SpeakerLoop

(* With tasks and loops in time and a driver that does not fail, every     *)
(* COMMAND_STOP that ends a task was asked for: none is left over from the *)
(* time before the speaker was last STOPPED.                               *)
THEOREM StopsAreAsked == InTime => (Spec => OnlyAskedStops)
  <1> SUFFICES ASSUME InTime PROVE Spec => OnlyAskedStops
    OBVIOUS
  <1> DEFINE Inv == OwnerInv /\ MicInv /\ MicRxInv /\ AskedInv
             A   == \A s \in Speakers :
                      /\ faults = MaxFaults
                      /\ task[s].pc = "run" /\ "COMMAND_STOP" \in bits[s] /\ task'[s].pc = "freeing"
                      => stop_asked[s]
  <1>1. Init => Inv
    <2>1. Init => MicInv
      BY SMTT(30), ListenersAssumption DEF Init, MicInv, MicTypeOK, MicTaskInv
    <2>2. Init => MicRxInv
      BY SMTT(30) DEF Init, MicRxInv, PortInit, NoChannels, RxSound
    <2>3. Init => AskedInv
      <3>1. Init => main = Idle /\ bits = [s \in Speakers |-> {}]
        BY Zenon DEF Init, SpeakerInit
      <3>2. main = Idle => \A s \in Speakers : At(s) # "reset"
        BY SMTT(30) DEF At, Idle
      <3> QED BY Zenon, <3>1, <3>2 DEF AskedInv
    <2> QED BY Zenon, <2>1, <2>2, <2>3, OwnerInit
  <1>2. Inv /\ [Next]_vars => Inv'
    BY Zenon, OwnerStep, MicInvStep, MicRxStep, AskedStep
  <1>3. Inv /\ [Next]_vars => [A]_vars
    BY Zenon DEF AskedInv
  <1> QED BY <1>1, <1>2, <1>3, PTL DEF Spec, OnlyAskedStops

-----------------------------------------------------------------------------
(* What is in the channel.  A task that knows of an underflow has nothing  *)
(* to account for and the channel is empty; otherwise the channel holds at *)
(* most what the task has sent and no event in its queue accounts for.     *)
Accounted(s) ==
  IF task[s].underflow THEN task[s].frames = 0 /\ dma = 0
  ELSE /\ port.on_sent = s
       /\ dma <= IF task[s].frames < events[s] THEN 0 ELSE task[s].frames - events[s]

DmaInv ==
  /\ port.tx # "RUNNING" => dma = 0
  /\ \A s \in Speakers : task[s].pc \in {"begin", "run"} => Accounted(s)

(* An iteration of the task keeps its accounts.                            *)
LEMMA IterationAccounts ==
  ASSUME OwnerInv, DmaInv, NEW s \in Speakers, TaskIterates(s)
  PROVE  task'[s].pc = "run" => Accounted(s)'
  <1>t. Types /\ PortInv
    BY Zenon DEF OwnerInv
  <1>1. /\ task[s] \in TaskLocals /\ task[s].frames \in Nat /\ events[s] \in Nat /\ dma \in Nat
        /\ task \in [Speakers -> TaskLocals] /\ events \in [Speakers -> Nat] /\ port \in Ports
    BY Zenon, <1>t DEF Types, TaskLocals
  <1>2. Accounted(s)
    BY Zenon DEF DmaInv, TaskIterates
  <1>3. PICK x \in TaskLocals :
          /\ task' = [task EXCEPT ![s] = x]
          /\ Rests(s, x) \/ SendsFirst(s, x) \/ SendsMore(s, x) \/ Finishes(s, x)
    BY Zenon, <1>t, IterationOutcome
  <1>4. events' = [events EXCEPT ![s] = 0]
    BY Zenon, <1>t, IterationOutcome
  <1>5. task'[s] = x /\ events'[s] = 0
    BY Zenon, <1>1, <1>3, <1>4
  <1>6. /\ Drained(s).underflow = IF events[s] = 0 THEN task[s].underflow ELSE task[s].frames < events[s]
        /\ Drained(s).frames = IF task[s].frames < events[s] THEN 0 ELSE task[s].frames - events[s]
    BY Zenon, <1>t, DrainedLocals
  <1>7. Drained(s).frames \in Nat
    BY SMTT(30), <1>1, <1>6
  <1>8. CASE Drained(s).underflow
    <2>1. Drained(s).frames = 0 /\ dma = 0
      <3>1. CASE events[s] = 0
        BY SMTT(30), <1>1, <1>2, <1>6, <1>8, <3>1 DEF Accounted
      <3>2. CASE events[s] # 0
        <4>1. task[s].frames < events[s]
          BY Zenon, <1>6, <1>8, <3>2
        <4> QED BY SMTT(30), <1>1, <1>2, <1>6, <4>1 DEF Accounted
      <3> QED BY Zenon, <3>1, <3>2
    <2>2. CASE Rests(s, x)
      BY Zenon, <1>5, <1>8, <2>1, <2>2 DEF Rests, Accounted
    <2>3. CASE SendsFirst(s, x)
      <3>1. port'.on_sent = s /\ dma' = 1 /\ x.frames = 1 /\ ~x.underflow
        BY SMTT(30), <1>1, <2>1, <2>3 DEF SendsFirst, Ports
      <3> QED BY SMTT(30), <1>5, <3>1 DEF Accounted
    <2> QED BY Zenon, <1>3, <1>5, <1>8, <2>2, <2>3 DEF SendsMore, Finishes
  <1>9. CASE ~Drained(s).underflow
    <2>1. port.on_sent = s /\ dma <= Drained(s).frames
      <3>1. CASE events[s] = 0
        BY Zenon, <1>1, <1>2, <1>6, <1>9, <3>1 DEF Accounted
      <3>2. CASE events[s] # 0
        <4>1. ~(task[s].frames < events[s])
          BY Zenon, <1>6, <1>9, <3>2
        <4>2. ~task[s].underflow
          BY SMTT(30), <1>1, <1>2, <3>2, <4>1 DEF Accounted
        <4> QED BY Zenon, <1>1, <1>2, <1>6, <4>1, <4>2 DEF Accounted
      <3> QED BY Zenon, <3>1, <3>2
    <2>2. CASE Rests(s, x)
      <3>1. port'.on_sent = s /\ dma' = dma /\ x.frames = Drained(s).frames /\ ~x.underflow
        BY Zenon, <1>9, <2>1, <2>2 DEF Rests
      <3> QED BY SMTT(30), <1>1, <1>5, <1>7, <2>1, <3>1 DEF Accounted
    <2>3. CASE SendsMore(s, x)
      <3>1. port'.on_sent = s /\ dma' = dma + 1 /\ x.frames = Drained(s).frames + 1 /\ ~x.underflow
        BY Zenon, <2>1, <2>3 DEF SendsMore
      <3> QED BY SMTT(30), <1>1, <1>5, <1>7, <2>1, <3>1 DEF Accounted
    <2> QED BY Zenon, <1>3, <1>5, <1>9, <2>2, <2>3 DEF SendsFirst, Finishes
  <1> QED BY Zenon, <1>8, <1>9

(* Every step keeps DmaInv.                                                *)
LEMMA DmaStep ==
  ASSUME InTime, OwnerInv, DmaInv, [Next]_vars
  PROVE  DmaInv'
  <1>t. Types /\ PortInv /\ \A s \in Speakers : SpeakerInv(s)
    BY Zenon DEF OwnerInv, LifeInv
  <1>n. /\ dma \in Nat /\ task \in [Speakers -> TaskLocals] /\ events \in [Speakers -> Nat] /\ port \in Ports
        /\ \A s \in Speakers : task[s].frames \in Nat /\ events[s] \in Nat
    BY Zenon, <1>t DEF Types, TaskLocals
  <1>r. \A s \in Speakers : Alive(s) => s = route
    BY Zenon, <1>t DEF SpeakerInv, OnlyRouteIsActive
  <1>k. CASE UNCHANGED <<task, events, dma, port>>
    BY Zenon, <1>k DEF DmaInv, Accounted
  <1>1. CASE ClientStep \/ UserStops \/ UserPauses \/ SwitchBegins \/ SwitchEnds
    BY Zenon, <1>1, <1>k DEF ClientStep, PlayStarts, StartWritesState, StartCommands, PlayWrites, HasBufferedData,
                      UserStops, UserPauses, SwitchBegins, SwitchEnds, speakerVars
  <1>2. CASE DmaSent
    <2>1. UNCHANGED <<task, port>> /\ dma' = (IF dma = 0 THEN 0 ELSE dma - 1)
      BY Zenon, <1>2 DEF DmaSent
    <2>2. dma' \in Nat /\ dma' <= dma /\ (dma # 0 => dma' = dma - 1)
      BY SMTT(30), <1>n, <2>1
    <2>3. ASSUME NEW s \in Speakers, port.on_sent = s PROVE events'[s] = events[s] \/ events'[s] = events[s] + 1
      BY Zenon, <1>2, <1>n, <2>3, SpeakersAssumption DEF DmaSent
    <2>4. ASSUME NEW s \in Speakers, task'[s].pc \in {"begin", "run"} PROVE Accounted(s)'
      <3>1. Accounted(s)
        BY Zenon, <2>1, <2>4 DEF DmaInv
      <3>2. CASE task[s].underflow
        BY Zenon, <1>n, <2>1, <2>2, <3>1, <3>2 DEF Accounted
      <3>3. CASE ~task[s].underflow
        <4>1. /\ port'.on_sent = s /\ dma <= IF task[s].frames < events[s] THEN 0 ELSE task[s].frames - events[s]
              /\ ~task'[s].underflow /\ task'[s].frames = task[s].frames
          BY Zenon, <2>1, <3>1, <3>3 DEF Accounted
        <4>2. events'[s] = events[s] \/ events'[s] = events[s] + 1
          BY Zenon, <2>1, <2>3, <4>1
        <4>3. dma' <= IF task[s].frames < events'[s] THEN 0 ELSE task[s].frames - events'[s]
          BY SMTT(30), <1>n, <2>2, <4>1, <4>2
        <4> QED BY Zenon, <4>1, <4>3 DEF Accounted
      <3> QED BY Zenon, <3>2, <3>3
    <2>5. port'.tx # "RUNNING" => dma' = 0
      BY Zenon, <1>2, <2>1 DEF DmaSent
    <2> QED BY Zenon, <2>4, <2>5 DEF DmaInv
  <1>3. ASSUME NEW s \in Speakers, LoopReads(s) \/ LoopFlags(s) \/ LoopReset(s) \/ ErrorEnds(s) PROVE DmaInv'
    BY Zenon, <1>3, <1>k DEF LoopReads, LoopFlags, LoopReset, ErrorEnds, speakerVars
  <1>4. ASSUME NEW s \in Speakers, LoopStopped(s) PROVE DmaInv'
    <2>1. port'.tx # "RUNNING" /\ dma' = 0
      BY Zenon, <1>4, <1>t, <1>n, StopTxOutcome DEF LoopStopped, PortInv
    <2>2. At(s) = "stopped"
      BY Zenon, <1>4 DEF LoopStopped, At
    <2>3. Alive(s)
      BY Zenon, <1>t, <2>2 DEF SpeakerInv, SeenHolds, Alive
    <2>4. \A t \in Speakers : task'[t].pc = "none"
      BY Zenon, <1>4, <1>n, <1>r, <2>3 DEF LoopStopped, Alive, Task
    <2> QED BY Zenon, <2>1, <2>4 DEF DmaInv
  <1>5. ASSUME NEW s \in Speakers, LoopStart(s) PROVE DmaInv'
    <2>1. CASE ~StartDue(s)
      BY Zenon, <1>5, <1>k, <2>1, LoopStartPort DEF LoopStart
    <2>2. CASE StartDue(s)
      <3>1. ~Alive(s) /\ s = route /\ port.tx # "RUNNING" /\ dma' = dma
        BY Zenon, <1>5, <2>2, LoopStartOutcome DEF LoopStart, LoopStarts
      <3>2. dma' = 0 /\ \A t \in Speakers : task[t].pc = "none"
        BY Zenon, <1>r, <3>1 DEF DmaInv, Alive
      <3>3. CASE task' = [task EXCEPT ![s] = Task("begin")]
        <4>1. task'[s].underflow = TRUE
          BY Zenon, <1>n, <3>3 DEF Task
        <4>2. task'[s].frames = 0 /\ \A t \in Speakers : t # s => task'[t].pc = "none"
          BY Zenon, <1>n, <3>2, <3>3 DEF Task
        <4> QED BY Zenon, <3>2, <4>1, <4>2 DEF DmaInv, Accounted
      <3>4. CASE task' = task
        BY Zenon, <3>2, <3>4 DEF DmaInv
      <3> QED BY Zenon, <1>5, <2>2, <3>3, <3>4, LoopStartPort
    <2> QED BY Zenon, <2>1, <2>2
  <1>6. ASSUME NEW s \in Speakers, TaskStep(s) PROVE DmaInv'
    <2>1. Alive(s) /\ \A t \in Speakers \ {s} : task'[t] = task[t]
      BY Zenon, <1>6, <1>t, TaskOutcome DEF Alive, Moves
    <2>2. port.tx = "RUNNING" /\ \A t \in Speakers \ {s} : task'[t].pc = "none"
      BY Zenon, <1>t, <1>r, <2>1 DEF PortInv, Alive
    <2>3. CASE TaskIterates(s)
      <3>1. task'[s].pc = "run" => Accounted(s)'
        BY Zenon, <2>3, IterationAccounts
      <3>2. PICK x \in TaskLocals :
              /\ task' = [task EXCEPT ![s] = x]
              /\ Rests(s, x) \/ SendsFirst(s, x) \/ SendsMore(s, x) \/ Finishes(s, x)
        BY Zenon, <1>t, <2>3, IterationOutcome
      <3>3. port'.tx = "RUNNING" /\ task'[s].pc \in {"run", "freeing"}
        BY Zenon, <1>n, <2>2, <3>2 DEF Rests, SendsFirst, SendsMore, Finishes, Ports
      <3> QED BY Zenon, <2>2, <3>1, <3>3 DEF DmaInv
    <2>4. CASE TaskBegins(s)
      <3>1. UNCHANGED <<events, dma, port>> /\ task[s].pc = "begin" /\ Accounted(s)
        BY Zenon, <2>4 DEF TaskBegins, DmaInv
      <3>2. PICK pc : task' = [task EXCEPT ![s].pc = pc]
        BY Zenon, <2>4 DEF TaskBegins
      <3>3. task[s] \in TaskLocals /\ task'[s] = [task[s] EXCEPT !.pc = pc]
        BY Zenon, <1>n, <3>2
      <3>4. task'[s].underflow = task[s].underflow /\ task'[s].frames = task[s].frames
        BY Zenon, <3>3 DEF TaskLocals
      <3>5. Accounted(s)'
        BY Zenon, <3>1, <3>4 DEF Accounted
      <3> QED BY Zenon, <2>2, <3>1, <3>5 DEF DmaInv
    <2>5. CASE TaskStops(s) \/ TaskFrees(s)
      <3>1. UNCHANGED port /\ task'[s].pc \in {"freeing", "stopped"}
        BY SMTT(30), <1>n, <2>5 DEF TaskStops, TaskFrees, TaskLocals
      <3> QED BY Zenon, <2>2, <3>1 DEF DmaInv
    <2> QED BY Zenon, <1>6, <2>3, <2>4, <2>5 DEF TaskStep
  <1>7. CASE ListenerStarts \/ ListenerStops \/ MicErrorEnds \/ MicTask \/ UNCHANGED vars
    BY Zenon, <1>7, <1>k DEF ListenerStarts, ListenerStops, MicErrorEnds, MicTask, vars, speakerVars
  <1>8. CASE MicLoop
    <2>1. UNCHANGED <<task, events, dma>>
      BY Zenon, <1>8 DEF MicLoop, speakerVars
    <2>2. /\ port.tx_handle_ => port'.tx = port.tx /\ port'.on_sent = port.on_sent
          /\ ~port.tx_handle_ => port'.tx # "RUNNING"
      BY Zenon, <1>8, MicLoopPort
    <2>3. \A s \in Speakers : task[s].pc \in {"begin", "run"} => port.tx_handle_
      BY Zenon, <1>t DEF PortInv, TxSound, Alive
    <2>4. port'.tx # "RUNNING" => dma = 0
      BY Zenon, <1>t, <2>2 DEF DmaInv, PortInv, TxSound
    <2> QED BY Zenon, <2>1, <2>2, <2>3, <2>4 DEF DmaInv, Accounted
  <1> QED BY Zenon, <1>1, <1>2, <1>3, <1>4, <1>5, <1>6, <1>7, <1>8
          DEF Next, OfSpeakers, SpeakerNext, SpeakerLoop

(* The clients' calls are counted down.                                    *)
LEMMA RequestsCounted ==
  ASSUME requests \in Nat, [Next]_vars
  PROVE  requests' \in Nat
  <1>1. requests' = requests \/ (requests > 0 /\ requests' = requests - 1)
    <2>1. CASE ClientStep \/ UserStops \/ UserPauses \/ SwitchBegins \/ SwitchEnds \/ DmaSent
      BY Zenon, <2>1 DEF ClientStep, PlayStarts, StartWritesState, StartCommands, PlayWrites, HasBufferedData,
                  UserStops, UserPauses, SwitchBegins, SwitchEnds, DmaSent, Request
    <2>2. ASSUME NEW s \in Speakers, SpeakerLoop(s) PROVE requests' = requests
      BY Zenon, <2>2 DEF SpeakerLoop, LoopReads, LoopFlags, LoopStopped, LoopReset, LoopStart, ErrorEnds, clientVars
    <2>3. ASSUME NEW s \in Speakers, TaskStep(s)
          PROVE  requests' = requests \/ (requests > 0 /\ requests' = requests - 1)
      BY Zenon, <2>3 DEF TaskStep, TaskBegins, TaskStops, TaskIterates, TaskFrees, clientVars
    <2>4. CASE ListenerStarts \/ ListenerStops \/ MicLoop \/ MicErrorEnds \/ MicTask \/ UNCHANGED vars
      BY Zenon, <2>4 DEF ListenerStarts, ListenerStops, MicLoop, MicErrorEnds, MicTask, vars, clientVars
    <2> QED BY Zenon, <2>1, <2>2, <2>3, <2>4 DEF Next, OfSpeakers, SpeakerNext
  <1> QED BY SMTT(30), <1>1

(* The last step of a task that ends by itself.                            *)
LEMMA FinishingStep ==
  ASSUME OwnerInv, DmaInv, requests \in Nat, [Next]_vars, NEW s \in Speakers,
         task[s].pc = "run", task'[s].pc = "freeing",
         "COMMAND_STOP" \notin bits[s], requests' = requests
  PROVE  ring[s] = 0 /\ ~task[s].buf /\ dma = 0 /\ task'[s].frames = 0
  <1>t. Types /\ \A t \in Speakers : SpeakerInv(t)
    BY Zenon DEF OwnerInv, LifeInv
  <1>n. /\ dma \in Nat /\ task \in [Speakers -> TaskLocals] /\ events \in [Speakers -> Nat]
        /\ task[s].frames \in Nat /\ events[s] \in Nat
    BY Zenon, <1>t DEF Types, TaskLocals
  <1>1. TaskIterates(s)
    <2>1. task' # task
      OBVIOUS
    <2>2. CASE ClientStep \/ UserStops \/ UserPauses \/ SwitchBegins \/ SwitchEnds \/ DmaSent
      BY Zenon, <2>1, <2>2 DEF ClientStep, PlayStarts, StartWritesState, StartCommands, PlayWrites, HasBufferedData,
                        UserStops, UserPauses, SwitchBegins, SwitchEnds, DmaSent, speakerVars
    <2>3. ASSUME NEW t \in Speakers, SpeakerLoop(t) PROVE FALSE
      <3>1. CASE LoopStopped(t) \/ LoopStart(t)
        <4>1. task' = task \/ \E pc \in {"none", "begin"} : task' = [task EXCEPT ![t] = Task(pc)]
          BY Zenon, <3>1 DEF LoopStopped, LoopStart, DriverStarted, DriverFailed
        <4> QED BY SMTT(30), <1>n, <2>1, <4>1 DEF Task
      <3>2. CASE LoopReads(t) \/ LoopFlags(t) \/ LoopReset(t) \/ ErrorEnds(t)
        BY Zenon, <2>1, <3>2 DEF LoopReads, LoopFlags, LoopReset, ErrorEnds, speakerVars
      <3> QED BY Zenon, <2>3, <3>1, <3>2 DEF SpeakerLoop
    <2>4. ASSUME NEW t \in Speakers, TaskStep(t) PROVE TaskIterates(s)
      <3>1. t = s
        BY Zenon, <1>t, <2>4, TaskOutcome
      <3>2. ~TaskStops(s)
        <4>1. requests - 1 # requests
          BY SMTT(30)
        <4> QED BY Zenon, <4>1 DEF TaskStops
      <3>3. ~TaskBegins(s) /\ ~TaskFrees(s)
        BY Zenon DEF TaskBegins, TaskFrees
      <3> QED BY Zenon, <2>4, <3>1, <3>2, <3>3 DEF TaskStep
    <2>5. CASE ListenerStarts \/ ListenerStops \/ MicLoop \/ MicErrorEnds \/ MicTask \/ UNCHANGED vars
      BY Zenon, <2>1, <2>5 DEF ListenerStarts, ListenerStops, MicLoop, MicErrorEnds, MicTask, vars, speakerVars
    <2> QED BY Zenon, <2>2, <2>3, <2>4, <2>5 DEF Next, OfSpeakers, SpeakerNext
  <1>2. PICK x \in TaskLocals :
          /\ task' = [task EXCEPT ![s] = x]
          /\ Rests(s, x) \/ SendsFirst(s, x) \/ SendsMore(s, x) \/ Finishes(s, x)
    BY Zenon, <1>t, <1>1, IterationOutcome
  <1>3. task'[s] = x
    BY Zenon, <1>n, <1>2
  <1>4. Finishes(s, x)
    BY Zenon, <1>2, <1>3 DEF Rests, SendsFirst, SendsMore
  <1>5. Accounted(s)
    BY Zenon DEF DmaInv
  <1>6. /\ Drained(s).underflow = IF events[s] = 0 THEN task[s].underflow ELSE task[s].frames < events[s]
        /\ Drained(s).frames = IF task[s].frames < events[s] THEN 0 ELSE task[s].frames - events[s]
    BY Zenon, <1>t, DrainedLocals
  <1>7. Drained(s).frames = 0 /\ dma = 0
    <2>1. Drained(s).underflow
      BY Zenon, <1>4 DEF Finishes
    <2>2. CASE events[s] = 0
      BY SMTT(30), <1>n, <1>5, <1>6, <2>1, <2>2 DEF Accounted
    <2>3. CASE events[s] # 0
      <3>1. task[s].frames < events[s]
        BY Zenon, <1>6, <2>1, <2>3
      <3> QED BY SMTT(30), <1>n, <1>5, <1>6, <3>1 DEF Accounted
    <2> QED BY Zenon, <2>2, <2>3
  <1> QED BY Zenon, <1>3, <1>4, <1>7 DEF Finishes

(* With tasks and loops in time, finish() loses nothing: when a task ends  *)
(* because of it, the ring buffer, the task's own buffer and the channel   *)
(* are empty and all frames have been reported.  The driver may fail.      *)
THEOREM FinishLosesNothing == InTime => (Spec => FinishedMeansPlayed)
  <1> SUFFICES ASSUME InTime PROVE Spec => FinishedMeansPlayed
    OBVIOUS
  <1> DEFINE Inv == OwnerInv /\ DmaInv /\ requests \in Nat
             A   == \A s \in Speakers :
                      /\ task[s].pc = "run" /\ task'[s].pc = "freeing" /\ task'[s].graceful
                      /\ "COMMAND_STOP" \notin bits[s] /\ requests' = requests
                      => ring[s] = 0 /\ ~task[s].buf /\ dma = 0 /\ task'[s].frames = 0
  <1>1. Init => Inv
    <2>1. Init => DmaInv
      <3>1. Init => dma = 0 /\ task = [s \in Speakers |-> Task("none")]
        BY Zenon DEF Init, SpeakerInit
      <3>2. Task("none").pc = "none"
        BY Zenon DEF Task
      <3> QED BY Zenon, <3>1, <3>2 DEF DmaInv
    <2>2. Init => requests \in Nat
      BY Zenon, SpeakerAssumption DEF Init, SpeakerInit
    <2> QED BY Zenon, <2>1, <2>2, OwnerInit
  <1>2. Inv /\ [Next]_vars => Inv'
    BY Zenon, OwnerStep, DmaStep, RequestsCounted
  <1>3. Inv /\ [Next]_vars => A
    BY Zenon, FinishingStep
  <1> QED BY <1>1, <1>2, <1>3, PTL DEF Spec, FinishedMeansPlayed
=============================================================================
