-------------------------- MODULE PdAnswers_proofs --------------------------
(***************************************************************************)
(* What the two sides may rely on when the other answers, on top of the    *)
(* exchange of messages: the ids of the driver's messages are fresh, and   *)
(* check_status_ gives up only on a partner without power delivery.        *)
(***************************************************************************)
EXTENDS PdExchange_proofs

-----------------------------------------------------------------------------
(* The ids of the driver's messages.                                       *)

(* The tasks run on the first attach of this start.                        *)
Live == NotRestarted /\ src.plugged /\ Counting

CrcPlaces ==
  \A i \in 1..Len(Pipe) : Pipe[i].type = "GOODCRC" =>
    /\ i <= 2 /\ Pipe[i].objs = <<>>
    /\ \A j \in 1..Len(Pipe) : Pipe[j].type = "GOODCRC" => j = i

IdsMatch ==
  /\ tx_fifo = <<>> /\ pc # "send" /\ src.last # NO_MSG_ID =>
       (Counter + (IF Acknowledged THEN 1 ELSE 0)) % 8 = (src.last + 1) % 8
  /\ tx_fifo # <<>> =>
       /\ tx_fifo[1].id = Counter % 8
       /\ tx_fifo[1].type = "SOFT_RESET" \/ tx_fifo[1].id # src.last

(* Nothing has been sent while they do not.                                *)
Silent ==
  NotRestarted /\ src.plugged /\ ~Counting =>
    IF failed THEN \A i \in 1..Len(tx_fifo) : tx_fifo[i].type = "SOFT_RESET"
              ELSE src.last = NO_MSG_ID /\ tx_fifo = <<>>

Restarts ==
  /\ budget.reboot <= MaxReboots
  /\ src.caps = <<>> => src.last = NO_MSG_ID

(* The parts of CounterInv.                                                *)
LEMMA CounterParts ==
  /\ CounterInv <=> Restarts /\ Silent /\ (Live => CrcPlaces /\ IdsMatch)
  /\ CounterInv' <=> Restarts' /\ Silent' /\ (Live' => CrcPlaces' /\ IdsMatch')
<1>1. CounterInv <=> Restarts /\ Silent /\ (Live => CrcPlaces /\ IdsMatch)
  BY Zenon DEF CounterInv, Restarts, Silent, Live, CrcPlaces, IdsMatch
<1>2. CounterInv' <=> Restarts' /\ Silent' /\ (Live' => CrcPlaces' /\ IdsMatch')
  BY Zenon DEF CounterInv, Restarts, Silent, Live, CrcPlaces, IdsMatch
<1>. QED
  BY <1>1, <1>2, Zenon

(* A source without power delivery has heard nothing.                      *)
LEMMA RestartsStep ==
  ASSUME Orderly, TypeOK, Restarts, [Next]_vars
  PROVE  Restarts' /\ (NotRestarted' => NotRestarted /\ ~Reboot)
<1>2. budget'.reboot <= MaxReboots /\ (NotRestarted' => NotRestarted /\ ~Reboot)
  BY RebootsCounted, Zenon DEF Restarts
<1>3. src'.caps = <<>> => src'.last = NO_MSG_ID
  <2>1. CASE src' = src
    BY <2>1, Zenon DEF Restarts
  <2>2. CASE Plug
    <3>1. PICK caps \in SourceCaps, cc \in CcLines : src' = PluggedSource(caps, cc)
      BY <2>2, SMTT(30) DEF Plug, Sources
    <3>. QED
      BY <3>1, Zenon DEF PluggedSource, NoSource
  <2>3. CASE Unplug
    BY <2>3, Zenon DEF Unplug, NoSource
  <2>4. CASE SourceStep \/ SourceExtra
    <3>1. PICK m \in Messages : Emits(m)
      BY <2>4, SourceStepEmits, SourceExtraEmits, Zenon DEF Orderly
    <3>2. src'.caps = src.caps /\ src'.last \in {src.last, NO_MSG_ID}
      BY <3>1, Zenon DEF Emits
    <3>. QED
      BY <3>2, Zenon DEF Restarts
  <2>5. CASE SourceReceives
    BY <2>5, SourceHears, Zenon
  <2>6. CASE Aside
    BY <2>1, <2>6, AsideKeeps, Zenon DEF flowVars
  <2>7. CASE Setup \/ LoopDetachReset \/ LoopReattachReset \/ LoopSoftReset \/ LoopSpawn \/ LoopSend
             \/ TriggerCreate \/ TriggerReceive \/ TriggerSoftReset
    BY <2>1, <2>7, Zenon DEF Setup, LoopDetachReset, LoopReattachReset, LoopSoftReset, LoopSpawn,
       LoopSend, TriggerCreate, TriggerReceive, TriggerSoftReset
  <2>8. CASE ReaderReset \/ ReaderDrain \/ ReaderEnqueue \/ TxLost \/ Reboot
    BY <2>1, <2>8, Zenon DEF ReaderReset, ReaderDrain, ReaderEnqueue, TxLost, Reboot
  <2>. QED
    BY <2>2, <2>3, <2>4, <2>5, <2>6, <2>7, <2>8, StepKinds, Zenon
<1>. QED
  BY <1>2, <1>3, Zenon DEF Restarts

(* A step that sends nothing.                                              *)
LEMMA SilentKept ==
  ASSUME Silent, NotRestarted' => NotRestarted, src'.plugged => src.plugged,
         ~Counting' => ~Counting, failed => failed', src'.last \in {src.last, NO_MSG_ID},
         tx_fifo' = tx_fifo \/ tx_fifo' = <<>>
  PROVE  Silent'
<1>. SUFFICES ASSUME NotRestarted', src'.plugged, ~Counting'
              PROVE  IF failed' THEN \A i \in 1..Len(tx_fifo') : tx_fifo'[i].type = "SOFT_RESET"
                                ELSE src'.last = NO_MSG_ID /\ tx_fifo' = <<>>
  BY Zenon DEF Silent
<1>1. /\ failed => \A i \in 1..Len(tx_fifo) : tx_fifo[i].type = "SOFT_RESET"
      /\ ~failed => src.last = NO_MSG_ID /\ tx_fifo = <<>>
  BY Zenon DEF Silent
<1>2. CASE tx_fifo' = <<>>
  <2>1. \A i \in 1..Len(tx_fifo') : FALSE
    BY <1>2, SMTT(30)
  <2>. QED
    BY <1>1, <1>2, <2>1, Zenon
<1>3. CASE tx_fifo' # <<>> /\ tx_fifo' = tx_fifo
  BY <1>1, <1>3, Zenon
<1>. QED
  BY <1>2, <1>3, Zenon

(* In every step.                                                          *)
LEMMA SilentStep ==
  ASSUME Orderly, MaxPlugs = 0, TypeOK, PhaseInv, SoftResetInv, DueInv, AttachInv, Restarts, Silent,
         [Next]_vars
  PROVE  Silent'
<1>. USE DEF Orderly, taskVars, hwVars, pdVars
<1>0. (NotRestarted' => NotRestarted /\ ~Reboot) /\ ~Plug
  <2>1. budget.plug = 0
    BY Zenon DEF AttachInv
  <2>2. ~(budget.plug > 0)
    BY <2>1, SMTT(30)
  <2>. QED
    BY <2>2, RestartsStep, Zenon DEF Plug
<1>1. CASE LoopAside
  <2>1. UNCHANGED <<src, failed, tx_fifo, reader>>
    BY <1>1, LoopAsideKeeps, LoopAsideLife, Zenon DEF flowVars
  <2>. QED
    BY <1>0, <2>1, SilentKept, Zenon DEF Counting
<1>2. CASE ReaderAside
  <2>1. UNCHANGED <<src, failed, tx_fifo>>
    BY <1>2, Zenon DEF ReaderAside, ReaderCrc, ReaderWake, ReaderStatus
  <2>2. ~Counting' => ~Counting
    BY <1>2, Zenon DEF ReaderAside, ReaderCrc, ReaderWake, ReaderStatus, Counting
  <2>. QED
    BY <1>0, <2>1, <2>2, SilentKept, Zenon
<1>3. CASE Elapse \/ UNCHANGED vars
  <2>1. UNCHANGED <<src, failed, tx_fifo, reader>>
    BY <1>3, Zenon DEF Elapse, vars
  <2>. QED
    BY <1>0, <2>1, SilentKept, Zenon DEF Counting
<1>4. CASE Setup
  <2>1. /\ UNCHANGED <<src, reader>> /\ tx_fifo' \in {tx_fifo, <<>>} /\ pc = "setup"
    BY <1>4, Zenon DEF Setup
  <2>2. ~failed
    BY <2>1, PhaseSigns, Zenon DEF Starting
  <2>. QED
    BY <1>0, <2>1, <2>2, SilentKept, Zenon DEF Counting
<1>5. CASE LoopDetachReset \/ LoopReattachReset \/ LoopSoftReset
  <2>1. UNCHANGED <<src, failed, reader>> /\ tx_fifo' = <<>>
    BY <1>5, Zenon DEF LoopDetachReset, LoopReattachReset, LoopSoftReset, fusb_reset_
  <2>. QED
    BY <1>0, <2>1, SilentKept, Zenon DEF Counting
<1>6. CASE LoopSpawn
  <2>1. UNCHANGED <<src, reader, tx_fifo>> /\ pc = "spawn"
    BY <1>6, Zenon DEF LoopSpawn
  <2>2. ~failed
    BY <2>1, Zenon DEF PhaseInv, Starting, Measuring, Spawning, Running, Stopped, LaterPcs
  <2>. QED
    BY <1>0, <2>1, <2>2, SilentKept, Zenon DEF Counting
<1>7. CASE LoopSend
  <2>1. UNCHANGED <<src, reader, failed, trigger>> /\ pc = "send"
    BY <1>7, Zenon DEF LoopSend
  <2>2. ~Counting' => ~Counting /\ failed
    <3>1. trigger # "none" => Counting
      BY <2>1, Zenon DEF DueInv, SendDue, DuePcs, Counting
    <3>2. trigger = "none" => failed
      BY <2>1, Zenon DEF PhaseInv, Starting, Measuring, Spawning, Running, Stopped, LaterPcs
    <3>. QED
      BY <2>1, <3>1, <3>2, Zenon DEF Counting
  <2>3. PICK x \in SinkMessages : x.type = "SOFT_RESET" /\ tx_fifo' = Append(tx_fifo, x)
    BY <1>7, SoftResetSent, Zenon
  <2>4. /\ Len(tx_fifo) \in Nat /\ Len(tx_fifo') = Len(tx_fifo) + 1
        /\ tx_fifo'[Len(tx_fifo) + 1] = x
        /\ \A i \in 1..Len(tx_fifo) : tx_fifo'[i] = tx_fifo[i]
    BY <2>3, TxShape, Zenon
  <2>5. \A i \in 1..Len(tx_fifo') : i = Len(tx_fifo) + 1 \/ i \in 1..Len(tx_fifo)
    BY <2>4, SMTT(30)
  <2>. QED
    BY <1>0, <2>1, <2>2, <2>3, <2>4, <2>5, Zenon DEF Silent
<1>8. CASE TriggerCreate
  <2>1. UNCHANGED <<src, tx_fifo>> /\ trigger = "create"
    BY <1>8, Zenon DEF TriggerCreate
  <2>2. ~Counting /\ ~failed
    BY <2>1, TasksExist, Zenon DEF Counting, Spawning
  <2>. QED
    BY <1>0, <2>1, <2>2, SilentKept, Zenon
<1>9. CASE TriggerReceive
  <2>1. message_queue_ # <<>> /\ UNCHANGED reader
    BY <1>9, Zenon DEF TriggerReceive
  <2>2. Counting'
    BY <2>1, Zenon DEF AttachInv, Counting
  <2>. QED
    BY <2>2, Zenon DEF Silent
<1>10. CASE TriggerSoftReset
  <2>1. UNCHANGED <<src, failed, tx_fifo, reader>>
    BY <1>10, Zenon DEF TriggerSoftReset, handle_soft_reset_rest
  <2>. QED
    BY <1>0, <2>1, SilentKept, Zenon DEF Counting
<1>11. CASE ReaderReset \/ ReaderDrain \/ ReaderEnqueue
  <2>1. Counting'
    BY <1>11, Zenon DEF ReaderReset, ReaderDrain, ReaderEnqueue, Counting
  <2>. QED
    BY <2>1, Zenon DEF Silent
<1>12. CASE Unplug
  <2>1. ~src'.plugged
    BY <1>12, Zenon DEF Unplug, NoSource
  <2>. QED
    BY <2>1, Zenon DEF Silent
<1>13. CASE TxLost \/ SourceReceives
  <2>1. /\ UNCHANGED <<reader, failed>> /\ (src'.plugged => src.plugged)
        /\ tx_fifo # <<>> /\ tx_fifo' = Tail(tx_fifo)
    BY <1>13, Zenon DEF TxLost, SourceReceives
  <2>2. /\ Len(tx_fifo) \in Nat /\ Len(tx_fifo') = Len(tx_fifo) - 1
        /\ \A i \in 1..Len(tx_fifo') : tx_fifo'[i] = tx_fifo[i + 1]
    BY <2>1, TxShape, Zenon
  <2>3. \A i \in 1..Len(tx_fifo') : i + 1 \in 1..Len(tx_fifo)
    BY <2>2, SMTT(30)
  <2>. QED
    BY <1>0, <2>1, <2>2, <2>3, Zenon DEF Silent, Counting
<1>14. CASE SourceStep \/ SourceExtra
  <2>1. UNCHANGED <<failed, tx_fifo, reader>>
    BY <1>14, SourceRaisesIrq, Zenon
  <2>2. src.plugged /\ src'.last \in {src.last, NO_MSG_ID}
    BY <1>14, SourceStepEmits, SourceExtraEmits, Zenon DEF Emits
  <2>. QED
    BY <1>0, <2>1, <2>2, SilentKept, Zenon DEF Counting
<1>15. CASE Reboot
  BY <1>0, <1>15, Zenon DEF Silent
<1>. HIDE DEF Orderly, taskVars, hwVars, pdVars
<1>. QED
  BY <1>0, <1>1, <1>2, <1>3, <1>4, <1>5, <1>6, <1>7, <1>8, <1>9, <1>10, <1>11, <1>12, <1>13,
     <1>14, <1>15, StepKinds, Zenon DEF Aside

(* The acknowledges move with the pipe: what has gone, stayed or come is   *)
(* none.                                                                   *)
CrcMoved(k) ==
  /\ \A i \in 1..Len(Pipe') : Pipe'[i].type = "GOODCRC" =>
       i + k \in 1..Len(Pipe) /\ Pipe[i + k] = Pipe'[i]
  /\ \A i \in 1..Len(Pipe) : Pipe[i].type = "GOODCRC" =>
       \E j \in 1..Len(Pipe') : Pipe'[j] = Pipe[i]

(* Then they stay as few as they were.                                     *)
LEMMA CrcCarried ==
  ASSUME CrcPlaces, NEW k \in Nat, CrcMoved(k)
  PROVE  CrcPlaces' /\ (Acknowledged' <=> Acknowledged)
<1>1. ASSUME NEW i \in 1..Len(Pipe'), Pipe'[i].type = "GOODCRC"
      PROVE  /\ i <= 2 /\ Pipe'[i].objs = <<>>
             /\ \A j \in 1..Len(Pipe') : Pipe'[j].type = "GOODCRC" => j = i
  <2>1. i + k \in 1..Len(Pipe) /\ Pipe[i + k] = Pipe'[i]
    BY <1>1, Zenon DEF CrcMoved
  <2>2. i + k <= 2 /\ Pipe[i + k].objs = <<>>
    BY <1>1, <2>1, Zenon DEF CrcPlaces
  <2>3. i <= 2
    BY <2>2, SMTT(30)
  <2>4. ASSUME NEW j \in 1..Len(Pipe'), Pipe'[j].type = "GOODCRC"
        PROVE  j = i
    <3>1. j + k \in 1..Len(Pipe) /\ Pipe[j + k] = Pipe'[j]
      BY <2>4, Zenon DEF CrcMoved
    <3>2. j + k = i + k
      BY <1>1, <2>1, <2>4, <3>1, Zenon DEF CrcPlaces
    <3>. QED
      BY <3>2, SMTT(30)
  <2>. QED
    BY <2>1, <2>2, <2>3, <2>4, Zenon
<1>2. CrcPlaces'
  BY <1>1, Zenon DEF CrcPlaces
<1>3. Acknowledged' => Acknowledged
  BY Zenon DEF CrcMoved, Acknowledged
<1>4. Acknowledged => Acknowledged'
  BY Zenon DEF CrcMoved, Acknowledged
<1>. QED
  BY <1>2, <1>3, <1>4, Zenon

(* The same pipe.                                                          *)
LEMMA CrcSame ==
  ASSUME CrcPlaces, Pipe' = Pipe
  PROVE  CrcPlaces' /\ (Acknowledged' <=> Acknowledged)
BY Zenon DEF CrcPlaces, Acknowledged

(* The types the arithmetic needs.                                         *)
LEMMA IdTypes ==
  ASSUME TypeOK, TypeOK'
  PROVE  /\ msg_counter_ \in 0..255 /\ msg_counter_' \in 0..255
         /\ Counter \in 0..255 /\ Counter' \in 0..255
         /\ src.last \in 0..7 \union {NO_MSG_ID} /\ src'.last \in 0..7 \union {NO_MSG_ID}
<1>1. msg_counter_ \in 0..255 /\ msg_counter_' \in 0..255
  BY Zenon DEF TypeOK, PdTypeOK
<1>2. src.last \in 0..7 \union {NO_MSG_ID} /\ src'.last \in 0..7 \union {NO_MSG_ID}
  BY Zenon DEF TypeOK, WorldTypeOK, SourceStates
<1>3. Counter \in 0..255 /\ Counter' \in 0..255
  BY <1>1, ModFacts, Zenon DEF Counter
<1>. QED
  BY <1>1, <1>2, <1>3, Zenon

(* The trigger task handles a message.                                     *)
LEMMA CounterHandled ==
  ASSUME Orderly, TypeOK, TypeOK', PhaseInv, DueInv, ExchangeInv, Live, CrcPlaces, IdsMatch,
         TriggerReceive
  PROVE  CrcPlaces' /\ IdsMatch'
<1>. DEFINE m == Pipe[1]
<1>0. /\ m \in Messages /\ m = Head(message_queue_) /\ 1 \in 1..Len(Pipe)
      /\ Len(Pipe) \in Nat /\ Len(Pipe) >= 1 /\ Len(Pipe') = Len(Pipe) - 1
      /\ \A i \in 1..Len(Pipe') : Pipe'[i] = Pipe[i + 1]
  BY PipeTaken, PipeElement, SMTT(30)
<1>1. /\ Handles(m) /\ src' = src /\ trigger = "receive" /\ pc' = pc
      /\ trigger' = IF StartsSoftReset(m) THEN "soft_reset" ELSE "receive"
  BY <1>0, MessageHandled, Zenon DEF TriggerReceive, Orderly
<1>2. Exchanging /\ Counter = msg_counter_
  BY <1>1, Zenon DEF Exchanging, Live, Counter
<1>3. /\ m.type = "GOODCRC" => m.objs = <<>> /\ \A i \in 1..Len(Pipe) : i # 1 => Pipe[i].type # "GOODCRC"
  BY <1>0, Zenon DEF CrcPlaces
<1>4. /\ \A i \in 1..Len(Pipe') : i + 1 \in 1..Len(Pipe) /\ i + 1 # 1
      /\ \A i \in 1..Len(Pipe) : i # 1 =>
           i - 1 \in 1..Len(Pipe') /\ (i - 1) + 1 = i
  BY <1>0, SMTT(30)
<1>. HIDE DEF m
<1>5. CASE m.type = "GOODCRC"
  <2>1. \A i \in 1..Len(Pipe') : Pipe'[i].type # "GOODCRC"
    BY <1>0, <1>3, <1>4, <1>5, Zenon
  <2>2. CrcPlaces' /\ ~Acknowledged'
    BY <2>1, Zenon DEF CrcPlaces, Acknowledged
  <2>3. Acknowledged
    BY <1>0, <1>5, Zenon DEF Acknowledged, m
  <2>4. tx_fifo = <<>>
    BY <1>0, <1>2, <1>5, Zenon DEF ExchangeInv, OneAtATime, Unanswered, m
  <2>5. tx_fifo' = <<>> /\ msg_counter_' = (msg_counter_ + 1) % 256 /\ trigger' = "receive"
    BY <1>1, <1>3, <1>5, <2>4, Zenon DEF Handles, Unanswered, StartsSoftReset
  <2>6. Counter' = (Counter + 1) % 256
    BY <1>2, <2>5, Zenon DEF Counter
  <2>7. pc # "send" /\ src.last # NO_MSG_ID => (Counter + 1) % 8 = (src.last + 1) % 8
    BY <2>3, <2>4, Zenon DEF IdsMatch
  <2>8. (Counter' + 0) % 8 = (Counter + 1) % 8
    <3>1. Counter \in 0..255 /\ Counter' \in 0..255
      BY IdTypes, Zenon
    <3>. QED
      BY <2>6, <3>1, SMTT(30)
  <2>9. IdsMatch'
    BY <1>1, <2>2, <2>5, <2>7, <2>8, Zenon DEF IdsMatch
  <2>. QED
    BY <2>2, <2>9, Zenon
<1>6. CASE m.type # "GOODCRC"
  <2>1. CrcMoved(1)
    <3>1. ASSUME NEW i \in 1..Len(Pipe), Pipe[i].type = "GOODCRC"
          PROVE  \E j \in 1..Len(Pipe') : Pipe'[j] = Pipe[i]
      <4>1. i # 1
        BY <1>6, <3>1, Zenon DEF m
      <4>2. i - 1 \in 1..Len(Pipe') /\ (i - 1) + 1 = i
        BY <1>4, <4>1, Zenon
      <4>. QED
        BY <1>0, <4>2, Zenon
    <3>. QED
      BY <1>0, <1>4, <3>1, Zenon DEF CrcMoved
  <2>2. CrcPlaces' /\ (Acknowledged' <=> Acknowledged) /\ msg_counter_' = msg_counter_
    <3>1. 1 \in Nat
      BY SMTT(30)
    <3>. QED
      BY <1>1, <1>6, <2>1, <3>1, CrcCarried, Zenon DEF Handles
  <2>3. CASE tx_fifo' = tx_fifo /\ ~StartsSoftReset(m)
    <3>1. Counter' = Counter
      BY <1>1, <1>2, <2>2, <2>3, Zenon DEF Counter
    <3>. QED
      BY <1>1, <2>2, <2>3, <3>1, Zenon DEF IdsMatch
  <2>4. CASE /\ m.type \notin Unanswered /\ m.id # last_received_msg_id_
             /\ \E x \in SinkMessages : /\ tx_fifo' = Append(tx_fifo, x)
                                        /\ x.id = IF StartsSoftReset(m) THEN 0 ELSE NextId
    <3>1. Pending(1)
      BY <1>0, <1>2, <2>4, Zenon DEF ExchangeInv, QuestionsOpen, Spent, m
    <3>2. tx_fifo = <<>> /\ Waits(m)
      BY <3>1, Zenon DEF Pending, m
    <3>3. PICK x \in SinkMessages : /\ tx_fifo' = <<x>>
                                    /\ x.id = IF StartsSoftReset(m) THEN 0 ELSE NextId
      BY <2>4, <3>2, TxShape, Zenon
    <3>4. tx_fifo' # <<>> /\ tx_fifo'[1] = x
      BY <3>3, SMTT(30)
    <3>5. ~Acknowledged
      <4>1. CASE Len(Pipe) = 1
        <5>1. \A i \in 1..Len(Pipe) : i = 1
          BY <4>1, SMTT(30)
        <5>. QED
          BY <1>6, <5>1, Zenon DEF Acknowledged, m
      <4>2. CASE 1 + 1 = Len(Pipe) /\ Pipe[1 + 1] = Pipe[1]
        <5>0. Len(Pipe) = 1 + 1
          BY <4>2, Zenon
        <5>1. \A i \in 1..Len(Pipe) : i = 1 \/ i = 1 + 1
          BY <5>0, SMTT(30)
        <5>. QED
          BY <1>6, <4>2, <5>1, Zenon DEF Acknowledged, m
      <4>. QED
        BY <3>1, <4>1, <4>2, Zenon DEF Pending
    <3>6. pc # "send"
      <4>1. pc = "send" => OnlyGoodCrc
        BY <1>1, Zenon DEF DueInv, SendDue, DuePcs
      <4>. QED
        BY <1>0, <1>6, <4>1, Zenon DEF OnlyGoodCrc, m
    <3>7. CASE StartsSoftReset(m)
      <4>1. src.last = NO_MSG_ID
        BY <3>2, <3>7, Zenon DEF Waits, StartsSoftReset
      <4>2. x.id = 0 /\ Counter' = 0
        BY <1>1, <3>3, <3>7, Zenon DEF Counter
      <4>3. 0 % 8 = 0 /\ 0 # NO_MSG_ID
        BY SMTT(30) DEF NO_MSG_ID
      <4>. QED
        BY <1>1, <2>2, <3>4, <4>1, <4>2, <4>3, Zenon DEF IdsMatch
    <3>8. CASE ~StartsSoftReset(m)
      <4>1. x.id = Counter % 8 /\ Counter' = Counter
        BY <1>1, <1>2, <2>2, <3>3, <3>8, Zenon DEF Counter, NextId
      <4>2. Counter \in 0..255 /\ Counter % 8 \in 0..7 /\ src.last \in 0..7 \union {NO_MSG_ID}
        BY IdTypes, ModFacts, Zenon
      <4>3. src.last # NO_MSG_ID => (Counter + 0) % 8 = (src.last + 1) % 8
        BY <3>2, <3>5, <3>6, Zenon DEF IdsMatch
      <4>4. x.id # src.last
        <5>1. CASE src.last = NO_MSG_ID
          BY <4>1, <4>2, <5>1, SMTT(30) DEF NO_MSG_ID
        <5>2. CASE src.last # NO_MSG_ID
          <6>1. src.last \in 0..7 /\ (src.last + 1) % 8 # src.last
            BY <4>2, <5>2, ModFacts, Zenon
          <6>2. (Counter + 0) % 8 = Counter % 8
            BY <4>2, ModFacts, Zenon
          <6>. QED
            BY <4>1, <4>3, <5>2, <6>1, <6>2, Zenon
        <5>. QED
          BY <5>1, <5>2, Zenon
      <4>. QED
        BY <1>1, <2>2, <3>4, <4>1, <4>4, Zenon DEF IdsMatch
    <3>. QED
      BY <3>7, <3>8, Zenon
  <2>5. StartsSoftReset(m) => m.type \notin Unanswered /\ m.id # last_received_msg_id_
    BY Zenon DEF StartsSoftReset, Unanswered
  <2>. QED
    BY <1>1, <1>6, <2>3, <2>4, <2>5, Zenon DEF Handles
<1>. QED
  BY <1>5, <1>6, Zenon

(* A step that leaves the messages alone.                                  *)
LEMMA IdsSame ==
  ASSUME IdsMatch, UNCHANGED <<tx_fifo, Counter>>, src'.last = src.last,
         Acknowledged' <=> Acknowledged, pc' # "send" => pc # "send"
  PROVE  IdsMatch'
BY Zenon DEF IdsMatch

(* The source sends a message.                                             *)
LEMMA CounterEmitted ==
  ASSUME TypeOK, TypeOK', ExchangeInv, Exchanging, CrcPlaces, IdsMatch,
         NEW m \in Messages, Emits(m),
         UNCHANGED <<message_queue_, Held, tx_fifo, trigger, idVars, pc>>
  PROVE  CrcPlaces' /\ IdsMatch'
<1>1. m.type # "GOODCRC" /\ src'.last \in {src.last, NO_MSG_ID}
  BY Zenon DEF Emits
<1>2. tx_fifo = <<>>
  BY Zenon DEF Emits, Settled, ExchangeInv, OneAtATime
<1>3. CrcMoved(0)
  <2>1. /\ \A i \in 1..Len(Pipe) : i \in 1..Len(Pipe') /\ Pipe'[i] = Pipe[i]
        /\ \A i \in 1..Len(Pipe') : i \in 1..Len(Pipe) \/ Pipe'[i] = m
    BY PipeEmitted, Zenon DEF Emits
  <2>2. \A i \in 1..Len(Pipe) : i + 0 = i
    <3>1. Len(Pipe) \in Nat
      BY PipeEmitted, Zenon DEF Emits
    <3>. QED
      BY <3>1, SMTT(30)
  <2>. QED
    BY <1>1, <2>1, <2>2, Zenon DEF CrcMoved
<1>4. CrcPlaces' /\ (Acknowledged' <=> Acknowledged)
  <2>1. 0 \in Nat
    BY SMTT(30)
  <2>. QED
    BY <1>3, <2>1, CrcCarried, Zenon
<1>5. Counter' = Counter
  BY Zenon DEF Counter, idVars
<1>6. IdsMatch'
  BY <1>1, <1>2, <1>4, <1>5, Zenon DEF IdsMatch
<1>. QED
  BY <1>4, <1>6, Zenon

(* The source receives the driver's message.                               *)
LEMMA CounterHeard ==
  ASSUME TypeOK, TypeOK', ExchangeInv, Exchanging, CrcPlaces, IdsMatch, SourceReceives
  PROVE  CrcPlaces' /\ IdsMatch'
<1>. DEFINE g == CntrlMsg("GOODCRC", Head(tx_fifo).id)
<1>1. /\ tx_fifo # <<>> /\ tx_fifo' = Tail(tx_fifo)
      /\ rx_fifo' = Append(rx_fifo, g) /\ Head(tx_fifo).id \in 0..7
      /\ UNCHANGED <<message_queue_, Held, trigger, idVars>> /\ src'.last = Head(tx_fifo).id
  BY SourceHears, Zenon DEF SourceReceives, Held, taskVars
<1>2. g \in Messages /\ g.type = "GOODCRC" /\ g.objs = <<>>
  BY <1>1, MessageTypes, Zenon DEF MsgTypes, CntrlMsg, Msg
<1>. HIDE DEF g
<1>3. Len(tx_fifo) = 1 /\ Len(Pipe) <= 1 /\ \A i \in 1..Len(Pipe) : Pipe[i].type # "GOODCRC"
  BY <1>1, Zenon DEF ExchangeInv, OneAtATime, Unanswered
<1>4. tx_fifo' = <<>> /\ Head(tx_fifo) = tx_fifo[1]
  BY <1>1, <1>3, TxShape, Zenon
<1>5. /\ Len(Pipe) \in Nat /\ Len(Pipe') = Len(Pipe) + 1
      /\ \A i \in 1..Len(Pipe) : Pipe'[i] = Pipe[i]
      /\ Pipe'[Len(Pipe) + 1] = g
  BY <1>1, <1>2, PipeGrown, Zenon
<1>6. /\ \A i \in 1..Len(Pipe') : i \in 1..Len(Pipe) \/ i = Len(Pipe) + 1
      /\ Len(Pipe) + 1 \in 1..Len(Pipe') /\ Len(Pipe) + 1 <= 2
  BY <1>3, <1>5, SMTT(30)
<1>7. \A i \in 1..Len(Pipe') : Pipe'[i].type = "GOODCRC" => i = Len(Pipe) + 1
  BY <1>3, <1>5, <1>6, Zenon
<1>8. CrcPlaces' /\ Acknowledged'
  BY <1>2, <1>5, <1>6, <1>7, Zenon DEF CrcPlaces, Acknowledged
<1>9. src'.last = Counter % 8 /\ Counter' = Counter
  BY <1>1, <1>4, Zenon DEF IdsMatch, Counter, idVars
<1>10. (Counter' + 1) % 8 = (src'.last + 1) % 8
  <2>1. Counter \in 0..255
    BY IdTypes, Zenon
  <2>. QED
    BY <1>9, <2>1, SMTT(30)
<1>11. IdsMatch'
  BY <1>4, <1>8, <1>10, Zenon DEF IdsMatch
<1>. QED
  BY <1>8, <1>11, Zenon

(* The queue never drops an acknowledge.                                   *)
LEMMA CounterQueued ==
  ASSUME TypeOK, TypeOK', QueueLength >= 2, CrcPlaces, IdsMatch, ReaderEnqueue
  PROVE  CrcPlaces' /\ IdsMatch'
<1>1. UNCHANGED <<src, tx_fifo, pc, Counter>>
  BY Zenon DEF ReaderEnqueue, pdVars, Counter, idVars
<1>2. CASE Pipe' = Pipe
  BY <1>1, <1>2, CrcSame, IdsSame, Zenon
<1>3. CASE /\ Len(message_queue_) >= QueueLength
           /\ Len(Pipe') = Len(Pipe) - 1
           /\ \A i \in 1..Len(Pipe') :
                Pipe'[i] = IF i <= Len(message_queue_) THEN Pipe[i] ELSE Pipe[i + 1]
  <2>. DEFINE q == Len(message_queue_)
  <2>0. q \in Nat /\ q >= 2 /\ Len(Pipe) \in Nat /\ Len(Pipe) >= q + 1
    <3>1. Held = <<rmsg>>
      BY Zenon DEF ReaderEnqueue, Held
    <3>2. Len(Held) = 1
      BY <3>1, SMTT(30)
    <3>. QED
      BY <1>3, <3>2, PipeElement, QueueLengthAssumption, SMTT(30)
  <2>1. /\ Len(Pipe') = Len(Pipe) - 1
        /\ \A i \in 1..Len(Pipe') : Pipe'[i] = IF i <= q THEN Pipe[i] ELSE Pipe[i + 1]
    BY <1>3, Zenon
  <2>. HIDE DEF q
  <2>2. ASSUME NEW i \in 1..Len(Pipe'), Pipe'[i].type = "GOODCRC"
        PROVE  i + 0 \in 1..Len(Pipe) /\ Pipe[i + 0] = Pipe'[i]
    <3>1. CASE i <= q
      <4>1. i + 0 = i /\ i \in 1..Len(Pipe)
        BY <2>0, <2>1, SMTT(30)
      <4>. QED
        BY <2>1, <3>1, <4>1, Zenon
    <3>2. CASE ~(i <= q)
      <4>1. i + 1 \in 1..Len(Pipe) /\ ~(i + 1 <= 2)
        BY <2>0, <2>1, <3>2, SMTT(30)
      <4>. QED
        BY <2>1, <2>2, <3>2, <4>1, Zenon DEF CrcPlaces
    <3>. QED
      BY <3>1, <3>2, Zenon
  <2>3. ASSUME NEW i \in 1..Len(Pipe), Pipe[i].type = "GOODCRC"
        PROVE  \E j \in 1..Len(Pipe') : Pipe'[j] = Pipe[i]
    <3>1. i <= 2
      BY <2>3, Zenon DEF CrcPlaces
    <3>2. i <= q /\ i \in 1..Len(Pipe')
      BY <2>0, <2>1, <3>1, SMTT(30)
    <3>. QED
      BY <2>1, <3>2, Zenon
  <2>4. CrcMoved(0) /\ 0 \in Nat
    <3>1. 0 \in Nat
      BY SMTT(30)
    <3>. QED
      BY <2>2, <2>3, <3>1, Zenon DEF CrcMoved
  <2>. QED
    BY <1>1, <2>4, CrcCarried, IdsSame, Zenon
<1>. QED
  BY <1>2, <1>3, PipeQueued, Zenon

(* In every step while the tasks run and nothing restarts.                 *)
LEMMA LiveStep ==
  ASSUME Orderly, MaxPlugs = 0, QueueLength >= 2, TypeOK, TypeOK', PhaseInv, SoftResetInv, DueInv,
         AttachInv, ExchangeInv, Restarts, Silent, Live => CrcPlaces /\ IdsMatch,
         [Next]_vars, Live'
  PROVE  CrcPlaces' /\ IdsMatch'
<1>. USE DEF Orderly
<1>0. NotRestarted /\ ~Reboot /\ ~Plug /\ NotRestarted' /\ src'.plugged /\ Counting'
  <2>1. budget.plug = 0
    BY Zenon DEF AttachInv
  <2>2. ~(budget.plug > 0)
    BY <2>1, SMTT(30)
  <2>. QED
    BY <2>2, RestartsStep, Zenon DEF Plug, Live
<1>1. Live => Exchanging /\ isr /\ CrcPlaces /\ IdsMatch
  BY Zenon DEF Live, Counting, Exchanging, PhaseInv, Starting, Measuring, Spawning, Running, Stopped
<1>2. CASE Aside
  <2>1. UNCHANGED <<src, tx_fifo, Pipe, Counter, trigger>>
    BY <1>2, AsideKeeps, Zenon DEF flowVars, Counter, idVars
  <2>2. Counting /\ (pc' # "send" => pc # "send")
    <3>1. CASE LoopAside
      BY <1>0, <3>1, LoopAsideKeeps, LoopAsideLife, Zenon DEF Counting
    <3>2. CASE ReaderAside
      BY <1>0, <3>2, Zenon DEF ReaderAside, ReaderCrc, ReaderWake, ReaderStatus, Counting
    <3>3. CASE Elapse \/ UNCHANGED vars
      BY <1>0, <3>3, Zenon DEF Elapse, vars, Counting, taskVars
    <3>. QED
      BY <1>2, <3>1, <3>2, <3>3, Zenon DEF Aside
  <2>. QED
    BY <1>0, <1>1, <2>1, <2>2, CrcSame, IdsSame, Zenon DEF Live
<1>3. CASE Setup \/ LoopSpawn \/ TriggerCreate
  <2>1. ~Counting'
    BY <1>3, TasksExist, Zenon DEF Setup, LoopSpawn, TriggerCreate, Counting, taskVars, PhaseInv,
       Starting, Measuring, Spawning, Running, Stopped, LaterPcs
  <2>. QED
    BY <1>0, <2>1, Zenon
<1>4. CASE LoopDetachReset \/ Unplug
  <2>1. LoopDetachReset => ~src'.plugged
    BY Zenon DEF LoopDetachReset, AttachInv, taskVars
  <2>2. CASE Unplug
    <3>1. src' = NoSource
      BY <2>2, Zenon DEF Unplug
    <3>2. ~src'.plugged
      BY <3>1, SMTT(30) DEF NoSource
    <3>. QED
      BY <1>0, <3>2, Zenon
  <2>. QED
    BY <1>0, <1>4, <2>1, <2>2, Zenon
<1>5. CASE LoopReattachReset
  <2>1. /\ UNCHANGED <<src, reader>> /\ pc = "reattach_reset"
    BY <1>5, Zenon DEF LoopReattachReset, taskVars
  <2>2. Live
    BY <1>0, <2>1, Zenon DEF Live, Counting
  <2>. QED
    BY <1>1, <2>1, <2>2, Zenon DEF Live, AttachInv, FirstAttach
<1>6. CASE LoopSoftReset \/ ReaderReset
  <2>1. /\ UNCHANGED <<message_queue_, Held, src, trigger>>
        /\ rx_fifo' = <<>> /\ tx_fifo' = <<>>
        /\ reader' = IF pc = "soft_reset" /\ reader # "reset" THEN reader ELSE "wait"
    <3>1. CASE LoopSoftReset
      <4>1. fusb_reset_ /\ UNCHANGED <<message_queue_, src, trigger, reader, rmsg>> /\ pc = "soft_reset"
        BY <3>1, Zenon DEF LoopSoftReset, taskVars
      <4>2. reader # "reset"
        BY <1>0, <4>1, Zenon DEF Counting
      <4>. QED
        BY <4>1, <4>2, Zenon DEF fusb_reset_, Held
    <3>2. CASE ReaderReset
      BY <3>2, Zenon DEF ReaderReset, fusb_reset_, Held
    <3>. QED
      BY <1>6, <3>1, <3>2, Zenon
  <2>2. message_queue_ = <<>> /\ Held = <<>> /\ (pc' # "send" => src.last = NO_MSG_ID)
    <3>1. CASE LoopSoftReset
      <4>1. UNCHANGED <<src, trigger, reader>> /\ pc = "soft_reset" /\ pc' = "send"
        BY <3>1, Zenon DEF LoopSoftReset, taskVars
      <4>2. SendDue /\ src.plugged
        BY <1>0, <1>1, <4>1, Zenon DEF SendDue, DuePcs, Live, Counting, Exchanging
      <4>. QED
        BY <4>1, <4>2, Zenon DEF DueInv, Held
    <3>2. CASE ReaderReset
      <4>1. UNCHANGED <<src, trigger, failed>> /\ reader = "reset"
        BY <3>2, Zenon DEF ReaderReset, hwVars
      <4>2. ~failed
        BY <4>1, Zenon DEF PhaseInv, Starting, Measuring, Spawning, Running, Stopped
      <4>3. src.last = NO_MSG_ID
        BY <1>0, <4>1, <4>2, Zenon DEF Silent, Counting
      <4>. QED
        BY <4>1, <4>3, Zenon DEF AttachInv, Held
    <3>. QED
      BY <1>6, <3>1, <3>2, Zenon
  <2>3. Pipe' = <<>>
    BY <2>1, <2>2, PipeCut, Zenon
  <2>4. \A i \in 1..Len(Pipe') : FALSE
    BY <2>3, SMTT(30)
  <2>. QED
    BY <2>1, <2>2, <2>4, Zenon DEF CrcPlaces, IdsMatch
<1>7. CASE LoopSend
  <2>1. /\ UNCHANGED <<src, trigger, reader, message_queue_, Held, rx_fifo, Pipe, Counter>>
        /\ pc = "send"
    BY <1>7, Zenon DEF LoopSend, taskVars, chipVars, Held, Pipe, Counter, idVars
  <2>2. Live
    BY <1>0, <2>1, Zenon DEF Live, Counting
  <2>3. SendDue
    BY <1>1, <2>1, <2>2, Zenon DEF SendDue, DuePcs, Exchanging
  <2>4. tx_fifo = <<>> /\ trigger = "receive"
    BY <2>3, Zenon DEF DueInv
  <2>5. PICK x \in SinkMessages : /\ x.type = "SOFT_RESET" /\ x.id = NextId
                                  /\ tx_fifo' = Append(tx_fifo, x)
    BY <1>7, SoftResetSent, Zenon
  <2>6. tx_fifo' = <<x>>
    BY <2>4, <2>5, TxShape, Zenon
  <2>7. tx_fifo'[1] = x /\ tx_fifo' # <<>>
    BY <2>6, SMTT(30)
  <2>8. x.id = Counter' % 8
    BY <2>1, <2>4, <2>5, Zenon DEF NextId, Counter
  <2>. QED
    BY <1>1, <2>1, <2>2, <2>5, <2>7, <2>8, CrcSame, Zenon DEF IdsMatch
<1>8. CASE TriggerReceive
  <2>1. UNCHANGED <<src, reader>>
    BY <1>8, Zenon DEF TriggerReceive
  <2>. QED
    BY <1>0, <1>1, <1>8, <2>1, CounterHandled, Zenon DEF Live, Counting
<1>9. CASE TriggerSoftReset
  <2>1. UNCHANGED <<src, reader, tx_fifo, Pipe, pc, Counter>>
    BY <1>9, Zenon DEF TriggerSoftReset, handle_soft_reset_rest, chipVars, Held, Pipe, Counter
  <2>. QED
    BY <1>0, <1>1, <2>1, CrcSame, IdsSame, Zenon DEF Live, Counting
<1>10. CASE ReaderDrain
  <2>1. UNCHANGED <<src, tx_fifo, pc, Counter>> /\ Counting
    BY <1>10, Zenon DEF ReaderDrain, pdVars, Counter, idVars, Counting
  <2>2. Pipe' = Pipe
    BY <1>10, PipeFetched, Zenon
  <2>. QED
    BY <1>0, <1>1, <2>1, <2>2, CrcSame, IdsSame, Zenon DEF Live
<1>11. CASE ReaderEnqueue
  <2>1. src' = src /\ Counting
    BY <1>11, Zenon DEF ReaderEnqueue, Counting
  <2>. QED
    BY <1>0, <1>1, <1>11, <2>1, CounterQueued, Zenon DEF Live
<1>12. CASE TxLost
  <2>1. /\ tx_fifo # <<>> /\ tx_fifo' = Tail(tx_fifo) /\ (~src.plugged \/ src.caps = <<>>)
        /\ UNCHANGED <<src, reader, Pipe>>
    BY <1>12, Zenon DEF TxLost, taskVars, chipVars, Pipe, Held
  <2>2. Live /\ src.caps = <<>>
    BY <1>0, <2>1, Zenon DEF Live, Counting
  <2>3. src'.last = NO_MSG_ID /\ tx_fifo' = <<>>
    BY <1>1, <2>1, <2>2, TxShape, Zenon DEF Restarts, ExchangeInv, OneAtATime
  <2>. QED
    BY <1>1, <2>1, <2>2, <2>3, CrcSame, Zenon DEF IdsMatch
<1>13. CASE SourceStep \/ SourceExtra
  <2>1. UNCHANGED <<message_queue_, Held, tx_fifo, trigger, idVars, pc, reader>>
    BY <1>13, SourceRaisesIrq, Zenon DEF taskVars, pdVars, Held
  <2>2. PICK m \in Messages : Emits(m)
    BY <1>13, SourceStepEmits, SourceExtraEmits, Zenon
  <2>3. Live
    BY <1>0, <2>1, <2>2, Zenon DEF Live, Counting, Emits
  <2>. QED
    BY <1>1, <2>1, <2>2, <2>3, CounterEmitted, Zenon
<1>14. CASE SourceReceives
  <2>1. UNCHANGED reader /\ src.plugged
    BY <1>14, Zenon DEF SourceReceives, taskVars
  <2>. QED
    BY <1>0, <1>1, <1>14, <2>1, CounterHeard, Zenon DEF Live, Counting
<1>. QED
  BY <1>0, <1>2, <1>3, <1>4, <1>5, <1>6, <1>7, <1>8, <1>9, <1>10, <1>11, <1>12, <1>13, <1>14,
     StepKinds, Zenon

(* At the start.                                                           *)
LEMMA CounterInit == Init => CounterInv
<1>. SUFFICES ASSUME Init
              PROVE  CounterInv
  BY Zenon
<1>0. reader = "none" /\ tx_fifo = <<>> /\ ~failed /\ budget.reboot = MaxReboots
  BY Zenon DEF Init, PowerUp, PdInit
<1>1. src.last = NO_MSG_ID
  <2>1. CASE src \in Sources
    <3>1. PICK caps \in SourceCaps, cc \in CcLines : src = PluggedSource(caps, cc)
      BY <2>1, SMTT(30) DEF Sources
    <3>. QED
      BY <3>1, Zenon DEF PluggedSource, NoSource
  <2>2. CASE src = NoSource
    BY <2>2, Zenon DEF NoSource
  <2>. QED
    BY <2>1, <2>2, Zenon DEF Init
<1>2. Restarts
  <2>1. budget.reboot <= MaxReboots
    BY <1>0, BoundsAssumption, SMTT(30)
  <2>. QED
    BY <1>1, <2>1, Zenon DEF Restarts
<1>. QED
  BY <1>0, <1>1, <1>2, CounterParts, Zenon DEF Silent, Live, Counting

(* In every step.                                                          *)
LEMMA CounterStep ==
  ASSUME Orderly, MaxPlugs = 0, QueueLength >= 2, DriverInv, DriverInv', FlowInv, CounterInv,
         [Next]_vars
  PROVE  CounterInv'
<1>1. TypeOK /\ TypeOK' /\ PhaseInv /\ SoftResetInv
  BY Zenon DEF DriverInv
<1>2. AttachInv /\ DueInv /\ ExchangeInv
  BY Zenon DEF FlowInv
<1>3. Restarts /\ Silent /\ (Live => CrcPlaces /\ IdsMatch)
  BY CounterParts, Zenon
<1>4. Restarts'
  BY <1>1, <1>3, RestartsStep, Zenon
<1>5. Silent'
  BY <1>1, <1>2, <1>3, SilentStep, Zenon
<1>6. Live' => CrcPlaces' /\ IdsMatch'
  BY <1>1, <1>2, <1>3, LiveStep, Zenon
<1>. QED
  BY <1>4, <1>5, <1>6, CounterParts, Zenon

(* The source never takes a message of the driver for a retransmission: no *)
(* message is built before the GOODCRC of the last one has moved           *)
(* msg_counter_ on, through the RX FIFO, the reader task and the queue,    *)
(* which the chip's interrupt does not tell the reader of.  The proof needs*)
(* a queue of two messages and that the cable is plugged in once: attached *)
(* again, the driver enables AUTO_CRC before it calls fusb_reset_, and the *)
(* counter may restart in the middle of an exchange.                       *)
THEOREM IdsAreFresh ==
  ASSUME Orderly, MaxPlugs = 0, QueueLength >= 2
  PROVE  Spec => []FreshMessageIds
<1>1. Init => CounterInv
  BY CounterInit, Zenon
<1>2. DriverInv /\ DriverInv' /\ FlowInv /\ CounterInv /\ [Next]_vars => CounterInv'
  BY CounterStep, Zenon
<1>3. DriverInv /\ CounterInv => FreshMessageIds
  <2>. SUFFICES ASSUME DriverInv, CounterInv, NotRestarted, src.plugged, tx_fifo # <<>>
                PROVE  Head(tx_fifo).type = "SOFT_RESET" \/ Head(tx_fifo).id # src.last
    BY Zenon DEF FreshMessageIds
  <2>1. /\ Head(tx_fifo) = tx_fifo[1] /\ Len(tx_fifo) \in Nat /\ Len(tx_fifo) # 0
    BY TxShape, Zenon DEF DriverInv
  <2>2. 1 \in 1..Len(tx_fifo)
    BY <2>1, SMTT(30)
  <2>. QED
    BY <2>1, <2>2, CounterParts, Zenon DEF Silent, Live, IdsMatch
<1>. QED
  BY <1>1, <1>2, <1>3, DriverInvariant, FlowInvariant, PTL DEF Spec

-----------------------------------------------------------------------------
(* Giving up.                                                              *)

(* Where the main loop and the tasks are when check_status_ has tried a    *)
(* soft reset.                                                             *)
TimeoutPlaces ==
  /\ pc = "pd_timeout" => ~src.plugged \/ src.caps = <<>>
  /\ MaxRequests = 0 => budget.request = 0
  /\ isr /\ hw_state_ = "UNATTACHED" => ~wait_src_cap_ \/ pc = "arm"
  /\ isr /\ ~auto_crc => reader = "crc" \/ hw_state_ = "UNATTACHED"
  /\ isr /\ ~auto_crc /\ pc \in {"reattach_reset", "arm"} => reader = "crc"
  /\ ~isr /\ tried_soft_reset_ => failed /\ pc \in {"timer", "idle"}

(* The two parts of TimeoutInv.                                            *)
LEMMA TimeoutParts ==
  /\ TimeoutInv <=> RecoveryInv /\ TimeoutPlaces
  /\ TimeoutInv' <=> RecoveryInv' /\ TimeoutPlaces'
<1>1. TimeoutInv <=> RecoveryInv /\ TimeoutPlaces
  BY Zenon DEF TimeoutInv, TimeoutPlaces
<1>2. TimeoutInv' <=> RecoveryInv' /\ TimeoutPlaces'
  BY Zenon DEF TimeoutInv, TimeoutPlaces
<1>. QED
  BY <1>1, <1>2, Zenon

(* A step that leaves the main loop alone ...                              *)
LEMMA TimeoutKept ==
  ASSUME TimeoutPlaces, UNCHANGED <<pc, hw_state_, isr, auto_crc, tried_soft_reset_, failed>>,
         wait_src_cap_' => wait_src_cap_, reader = "crc" => reader' = "crc",
         src'.plugged /\ src'.caps # <<>> => src.plugged /\ src.caps # <<>>,
         MaxRequests = 0 => budget'.request = 0
  PROVE  TimeoutPlaces'
BY Zenon DEF TimeoutPlaces

(* ... and one that moves it on.                                           *)
LEMMA TimeoutMoved ==
  ASSUME TimeoutPlaces, UNCHANGED <<src, hw_state_, isr, auto_crc, reader, tried_soft_reset_, failed>>,
         wait_src_cap_' => wait_src_cap_, pc # "arm",
         pc' \notin {"pd_timeout", "reattach_reset", "arm"},
         pc \in {"timer", "idle"} => pc' \in {"timer", "idle"} \/ ~failed,
         MaxRequests = 0 => budget'.request = 0
  PROVE  TimeoutPlaces'
BY Zenon DEF TimeoutPlaces

(* In every step.                                                          *)
LEMMA TimeoutPlacesStep ==
  ASSUME Orderly, MaxRequests = 0, TypeOK, PhaseInv, DueInv, TimeoutInv, [Next]_vars
  PROVE  TimeoutPlaces'
<1>. USE DEF Orderly
<1>0. TimeoutPlaces /\ RecoveryInv
  BY TimeoutParts, Zenon
<1>b. budget'.request = 0 /\ ~RequestVoltage
  <2>1. budget.request = 0
    BY <1>0, Zenon DEF TimeoutPlaces
  <2>2. ~(budget.request > 0)
    BY <2>1, SMTT(30)
  <2>. QED
    BY <2>1, <2>2, BudgetSteps, Zenon DEF RequestVoltage
<1>t. pc \notin {"timer", "idle"} => isr \/ ~tried_soft_reset_
  BY <1>0, Zenon DEF TimeoutPlaces
<1>. USE DEF hwVars, taskVars, chipVars, pdVars, capVars
<1>1. CASE Setup \/ LoopSpawn \/ Reboot
  <2>1. ~isr'
    BY <1>1, Zenon DEF Setup, LoopSpawn, Reboot, PhaseInv, Starting, Measuring, Spawning, Running,
       Stopped, LaterPcs
  <2>2. ~tried_soft_reset_' /\ pc' # "pd_timeout"
    <3>1. CASE Setup
      <4>1. pc = "setup" /\ tried_soft_reset_' = tried_soft_reset_ /\ pc' = "idle"
        BY <3>1, Zenon DEF Setup
      <4>2. ~isr
        BY <4>1, Zenon DEF PhaseInv, Starting, Measuring, Spawning, Running, Stopped, LaterPcs
      <4>. QED
        BY <1>t, <4>1, <4>2, Zenon
    <3>2. CASE LoopSpawn
      <4>1. pc = "spawn" /\ tried_soft_reset_' = tried_soft_reset_ /\ pc' \in {"arm", "timer"}
        BY <3>2, Zenon DEF LoopSpawn
      <4>2. ~isr
        BY <4>1, Zenon DEF PhaseInv, Starting, Measuring, Spawning, Running, Stopped, LaterPcs
      <4>. QED
        BY <1>t, <4>1, <4>2, Zenon
    <3>3. CASE Reboot
      BY <3>3, Zenon DEF Reboot
    <3>. QED
      BY <1>1, <3>1, <3>2, <3>3, Zenon
  <2>. QED
    BY <1>b, <2>1, <2>2, Zenon DEF TimeoutPlaces
<1>2. CASE RunDeferred
  BY <1>0, <1>b, <1>2, TimeoutKept, Zenon DEF RunDeferred
<1>3. CASE LoopStart
  <2>1. /\ UNCHANGED <<src, isr, auto_crc, reader, tried_soft_reset_, failed>> /\ ~failed
        /\ pc = "idle" /\ pc' \in {"detach_reset", "status"}
        /\ \/ hw_state_' = "UNATTACHED" /\ ~wait_src_cap_'
           \/ UNCHANGED <<hw_state_, wait_src_cap_>>
    BY <1>3, Zenon DEF LoopStart
  <2>2. CASE hw_state_' = "UNATTACHED" /\ ~wait_src_cap_'
    BY <1>0, <1>b, <2>1, <2>2, Zenon DEF TimeoutPlaces
  <2>3. CASE UNCHANGED <<hw_state_, wait_src_cap_>>
    BY <1>0, <1>b, <2>1, <2>3, TimeoutMoved, Zenon
  <2>. QED
    BY <2>1, <2>2, <2>3, Zenon
<1>4. CASE LoopDetachReset
  <2>1. /\ UNCHANGED <<src, hw_state_, isr, auto_crc, reader, tried_soft_reset_, failed, wait_src_cap_>>
        /\ pc = "detach_reset" /\ pc' = "detach_state"
    BY <1>4, Zenon DEF LoopDetachReset
  <2>. QED
    BY <1>0, <1>b, <2>1, TimeoutMoved, Zenon
<1>5. CASE LoopDetachState
  <2>1. /\ UNCHANGED <<src, hw_state_, isr, auto_crc, reader, tried_soft_reset_, failed, wait_src_cap_>>
        /\ pc = "detach_state" /\ pc' = "status"
    BY <1>5, Zenon DEF LoopDetachState
  <2>. QED
    BY <1>0, <1>b, <2>1, TimeoutMoved, Zenon
<1>6. CASE LoopCcIdle \/ LoopCcSettle1 \/ LoopCcSettle2
  <2>1. /\ UNCHANGED <<src, hw_state_, isr, reader, tried_soft_reset_, failed, wait_src_cap_>>
        /\ hw_state_ = "UNATTACHED" /\ pc = "status" /\ pc' \in {"timer", "spawn", "reattach_crc"}
    BY <1>6, Zenon DEF LoopCcIdle, LoopCcSettle1, LoopCcSettle2
  <2>. QED
    BY <1>0, <1>b, <1>t, <2>1, Zenon DEF TimeoutPlaces
<1>7. CASE LoopReattachCrc
  <2>1. /\ UNCHANGED <<src, hw_state_, isr, reader, tried_soft_reset_, failed, wait_src_cap_>>
        /\ auto_crc' /\ pc = "reattach_crc" /\ pc' = "reattach_reset"
    BY <1>7, Zenon DEF LoopReattachCrc, enable_auto_crc
  <2>. QED
    BY <1>0, <1>b, <1>t, <2>1, Zenon DEF TimeoutPlaces
<1>8. CASE LoopReattachReset
  <2>1. /\ UNCHANGED <<src, hw_state_, isr, auto_crc, reader, tried_soft_reset_, failed, wait_src_cap_>>
        /\ pc = "reattach_reset" /\ pc' = "arm"
    BY <1>8, Zenon DEF LoopReattachReset
  <2>. QED
    BY <1>0, <1>b, <1>t, <2>1, Zenon DEF TimeoutPlaces
<1>9. CASE LoopArm
  <2>1. /\ UNCHANGED <<src, isr, auto_crc, reader>> /\ hw_state_' = "ATTACHED"
        /\ ~tried_soft_reset_' /\ pc = "arm" /\ pc' = "timer"
    BY <1>9, Zenon DEF LoopArm
  <2>. QED
    BY <1>0, <1>b, <2>1, Zenon DEF TimeoutPlaces
<1>10. CASE LoopAttached
  <2>1. /\ UNCHANGED <<src, hw_state_, isr, auto_crc, reader, trigger, tried_soft_reset_, failed,
                       wait_src_cap_>>
        /\ pc = "status" /\ hw_state_ = "ATTACHED"
        /\ pc' \in {"timer", "send", "soft_reset", "pd_timeout"}
    BY <1>10, Zenon DEF LoopAttached
  <2>2. CASE pc' # "pd_timeout"
    BY <1>0, <1>b, <1>t, <2>1, <2>2, TimeoutMoved, Zenon
  <2>3. CASE pc' = "pd_timeout"
    <3>1. CapDue /\ get_src_cap_retry_count_ # 0 /\ tried_soft_reset_
      BY <1>10, <2>3, Zenon DEF LoopAttached
    <3>2. get_src_cap_retry_count_ > 0
      <4>1. get_src_cap_retry_count_ \in Nat
        BY Zenon DEF TypeOK, PdTypeOK
      <4>. QED
        BY <3>1, <4>1, SMTT(30)
    <3>3. CapExpired /\ wait_src_cap_ /\ isr
      BY <1>t, <2>1, <3>1, <3>2, Zenon DEF CapDue, CapExpired, Armed
    <3>4. SendDue
      BY <3>3, TasksExist, Zenon DEF SendDue
    <3>5. ~src.plugged \/ src.caps = <<>>
      BY <1>0, <3>1, <3>3, <3>4, Zenon DEF RecoveryInv, Recovering
    <3>. QED
      BY <1>0, <1>b, <1>t, <2>1, <2>3, <3>5, Zenon DEF TimeoutPlaces
  <2>. QED
    BY <2>2, <2>3, Zenon
<1>11. CASE LoopSoftReset
  <2>1. /\ UNCHANGED <<src, hw_state_, isr, auto_crc, reader, tried_soft_reset_, failed, wait_src_cap_>>
        /\ pc = "soft_reset" /\ pc' = "send"
    BY <1>11, Zenon DEF LoopSoftReset
  <2>. QED
    BY <1>0, <1>b, <2>1, TimeoutMoved, Zenon
<1>12. CASE LoopSend
  <2>1. /\ UNCHANGED <<src, hw_state_, isr, auto_crc, reader, failed, wait_src_cap_>>
        /\ pc = "send" /\ pc' = "timer"
    BY <1>12, Zenon DEF LoopSend
  <2>2. isr \/ failed
    <3>1. trigger # "none" => reader # "none"
      BY <2>1, Zenon DEF DueInv, SendDue, DuePcs
    <3>. QED
      BY <2>1, <3>1, Zenon DEF PhaseInv, Starting, Measuring, Spawning, Running, Stopped, LaterPcs
  <2>. QED
    BY <1>0, <1>b, <2>1, <2>2, Zenon DEF TimeoutPlaces
<1>13. CASE LoopPdTimeout
  <2>1. /\ UNCHANGED <<src, hw_state_, isr, auto_crc, reader, tried_soft_reset_, failed>>
        /\ ~wait_src_cap_' /\ pc = "pd_timeout" /\ pc' = "timer"
    BY <1>13, Zenon DEF LoopPdTimeout
  <2>. QED
    BY <1>0, <1>b, <2>1, TimeoutMoved, Zenon
<1>14. CASE LoopTimer
  <2>1. /\ UNCHANGED <<src, hw_state_, isr, auto_crc, reader, tried_soft_reset_, failed, wait_src_cap_>>
        /\ pc = "timer" /\ pc' = "idle"
    BY <1>14, Zenon DEF LoopTimer
  <2>. QED
    BY <1>0, <1>b, <2>1, TimeoutMoved, Zenon
<1>15. CASE TriggerCreate
  <2>1. /\ UNCHANGED <<src, hw_state_, auto_crc, pc, tried_soft_reset_, wait_src_cap_>>
        /\ trigger = "create" /\ (isr' = isr \/ reader' = "crc")
    BY <1>15, Zenon DEF TriggerCreate
  <2>2. Spawning
    BY <2>1, TasksExist, Zenon
  <2>3. ~isr /\ ~tried_soft_reset_ /\ (hw_state_ = "UNATTACHED" => pc = "arm")
    BY <1>0, <2>2, Zenon DEF Spawning, FirstAttach, TimeoutPlaces
  <2>4. CASE isr' = isr
    BY <1>0, <1>b, <2>1, <2>3, <2>4, Zenon DEF TimeoutPlaces
  <2>5. CASE reader' = "crc"
    BY <1>0, <1>b, <2>1, <2>3, <2>5, Zenon DEF TimeoutPlaces
  <2>. QED
    BY <2>1, <2>4, <2>5, Zenon
<1>16. CASE TriggerReceive \/ TriggerSoftReset
  <2>1. UNCHANGED <<src, hw_state_, isr, auto_crc, reader, failed, tried_soft_reset_, pc>>
    BY <1>16, HandlersEndTheWait, Zenon DEF TriggerReceive, TriggerSoftReset
  <2>2. wait_src_cap_' => wait_src_cap_
    <3>1. CASE wait_src_cap_' = wait_src_cap_
      BY <3>1, Zenon
    <3>2. CASE wait_src_cap_' = FALSE
      BY <3>2, Zenon
    <3>. QED
      BY <1>16, <3>1, <3>2, HandlersEndTheWait, Zenon
  <2>. QED
    BY <1>0, <1>b, <2>1, <2>2, TimeoutKept, Zenon
<1>17. CASE ReaderCrc
  <2>1. /\ UNCHANGED <<src, hw_state_, isr, failed, tried_soft_reset_, pc, wait_src_cap_>>
        /\ auto_crc'
    BY <1>17, Zenon DEF ReaderCrc, enable_auto_crc
  <2>. QED
    BY <1>0, <1>b, <2>1, Zenon DEF TimeoutPlaces
<1>18. CASE ReaderReset \/ ReaderWake \/ ReaderStatus \/ ReaderDrain \/ ReaderEnqueue
  <2>1. /\ UNCHANGED <<src, hw_state_, isr, failed, tried_soft_reset_, pc, wait_src_cap_, auto_crc>>
        /\ reader # "crc"
    BY <1>18, Zenon DEF ReaderReset, ReaderWake, ReaderStatus, ReaderDrain, ReaderEnqueue
  <2>. QED
    BY <1>0, <1>b, <2>1, TimeoutKept, Zenon
<1>19. CASE Plug
  <2>1. /\ UNCHANGED <<hw_state_, isr, failed, tried_soft_reset_, pc, wait_src_cap_, auto_crc, reader>>
        /\ Settled
    BY <1>19, Zenon DEF Plug
  <2>2. pc # "pd_timeout"
    BY <2>1, Zenon DEF Settled, LoopAtRest
  <2>. QED
    BY <1>0, <1>b, <2>1, <2>2, Zenon DEF TimeoutPlaces
<1>20. CASE Unplug
  <2>1. /\ UNCHANGED <<hw_state_, isr, failed, tried_soft_reset_, pc, wait_src_cap_, auto_crc, reader>>
        /\ src' = NoSource
    BY <1>20, Zenon DEF Unplug
  <2>2. ~src'.plugged
    BY <2>1, SMTT(30) DEF NoSource
  <2>. QED
    BY <1>0, <1>b, <2>1, <2>2, TimeoutKept, Zenon
<1>21. CASE TxLost \/ Elapse \/ UNCHANGED vars
  <2>1. UNCHANGED <<src, hw_state_, isr, failed, tried_soft_reset_, pc, wait_src_cap_, auto_crc, reader>>
    BY <1>21, Zenon DEF TxLost, Elapse, vars
  <2>. QED
    BY <1>0, <1>b, <2>1, TimeoutKept, Zenon
<1>22. CASE SourceStep \/ SourceExtra
  <2>1. UNCHANGED <<hw_state_, isr, failed, tried_soft_reset_, pc, wait_src_cap_, auto_crc, reader>>
    BY <1>22, SourceRaisesIrq, Zenon
  <2>2. src.plugged /\ src'.caps = src.caps
    BY <1>22, SourceStepEmits, SourceExtraEmits, Zenon DEF Emits
  <2>. QED
    BY <1>0, <1>b, <2>1, <2>2, TimeoutKept, Zenon
<1>23. CASE SourceReceives
  <2>1. UNCHANGED <<hw_state_, isr, failed, tried_soft_reset_, pc, wait_src_cap_, auto_crc, reader>>
    BY <1>23, Zenon DEF SourceReceives
  <2>2. src.plugged /\ src.caps # <<>>
    BY <1>23, Zenon DEF SourceReceives
  <2>. QED
    BY <1>0, <1>b, <2>1, <2>2, TimeoutKept, Zenon
<1>. HIDE DEF Orderly, hwVars, taskVars, chipVars, pdVars, capVars
<1>. QED
  BY <1>b, <1>1, <1>2, <1>3, <1>4, <1>5, <1>6, <1>7, <1>8, <1>9, <1>10, <1>11, <1>12, <1>13, <1>14,
     <1>15, <1>16, <1>17, <1>18, <1>19, <1>20, <1>21, <1>22, <1>23, StepKinds, Zenon
  DEF Aside, LoopAside, ReaderAside

(* What the messages on their way say while the soft reset is answered.    *)
RecoveryIds ==
  \A i \in 1..Len(Pipe) :
    /\ Pipe[i].type = "GOODCRC" => Pipe[i].objs = <<>>
    /\ Pipe[i].type = "ACCEPT" => Pipe[i].id = 0
    /\ Pipe[i].type = "SOURCE_CAP" => Pipe[i].id = 1 /\ Pipe[i].objs # <<>>

RecoveryState ==
  /\ trigger = "receive" /\ Counting /\ ~SendDue
  /\ last_received_msg_id_ \in {NO_MSG_ID, 0}
  /\ RecoveryIds /\ RecoverySteps

(* The parts of RecoveryInv.                                               *)
LEMMA RecoveryParts ==
  /\ RecoveryInv <=> (Recovering => RecoveryState)
  /\ RecoveryInv' <=> (Recovering' => RecoveryState')
<1>1. RecoveryInv <=> (Recovering => RecoveryState)
  BY Zenon DEF RecoveryInv, RecoveryState, RecoveryIds
<1>2. RecoveryInv' <=> (Recovering' => RecoveryState')
  BY Zenon DEF RecoveryInv, RecoveryState, RecoveryIds
<1>. QED
  BY <1>1, <1>2, Zenon

(* The four stages of the answer.                                          *)
Asked == Pipe = <<>> /\ Len(tx_fifo) = 1 /\ tx_fifo[1].type = "SOFT_RESET"
Heard == src.mode = "reset" /\ Len(Pipe) <= 1 /\ Answers({"GOODCRC"})
Accepted == src.mode = "caps" /\ src.id = 1 /\ Len(Pipe) <= 3 /\ Answers({"GOODCRC", "ACCEPT"})
Offered ==
  /\ src.mode = "wait_req" /\ Len(Pipe) <= 5 /\ Answers({"GOODCRC", "ACCEPT", "SOURCE_CAP"})
  /\ \E i \in 1..Len(Pipe) : Pipe[i].type = "SOURCE_CAP"

(* RecoverySteps is the disjunction of its four stages.                    *)
LEMMA RecoveryStages ==
  /\ RecoverySteps <=> Asked \/ Heard \/ Accepted \/ Offered
  /\ RecoverySteps' <=> Asked' \/ Heard' \/ Accepted' \/ Offered'
<1>1. RecoverySteps <=> Asked \/ Heard \/ Accepted \/ Offered
  BY Zenon DEF RecoverySteps, Asked, Heard, Accepted, Offered
<1>2. RecoverySteps' <=> Asked' \/ Heard' \/ Accepted' \/ Offered'
  BY Zenon DEF RecoverySteps, Asked, Heard, Accepted, Offered
<1>. QED
  BY <1>1, <1>2, Zenon

(* While it is under way nothing has come to rest.                         *)
LEMMA RecoveryBusy ==
  ASSUME TypeOK, PhaseInv, FifoInv, "i2c" \notin Faults, RecoveryState
  PROVE  ~(Settled /\ SourceQuiet)
<1>. SUFFICES ASSUME Settled, SourceQuiet
              PROVE  FALSE
  BY Zenon
<1>1. tx_fifo = <<>> /\ OnlyGoodCrc
  BY SettledPipe, Zenon DEF Settled, RecoveryState
<1>2. ~Asked
  <2>1. Len(tx_fifo) = 0
    BY <1>1, TxShape, Zenon
  <2>2. Len(tx_fifo) # 1
    BY <2>1, SMTT(30)
  <2>. QED
    BY <2>2, Zenon DEF Asked
<1>3. ~Heard /\ ~Accepted
  BY Zenon DEF Heard, Accepted, SourceQuiet
<1>4. ~Offered
  BY <1>1, Zenon DEF Offered, OnlyGoodCrc
<1>. QED
  BY <1>2, <1>3, <1>4, RecoveryStages, Zenon DEF RecoveryState

(* It holds no more messages than the queue does.                          *)
LEMMA RecoveryShort ==
  ASSUME TypeOK, TypeOK', RecoverySteps
  PROVE  Len(Pipe) \in Nat /\ Len(Pipe) <= 5
<1>0. Len(Pipe) \in Nat
  BY PipeElement, SMTT(30)
<1>1. CASE Asked
  <2>1. Pipe = <<>>
    BY <1>1, Zenon DEF Asked
  <2>. QED
    BY <2>1, SMTT(30)
<1>2. CASE Heard
  <2>1. Len(Pipe) <= 1
    BY <1>2, Zenon DEF Heard
  <2>. QED
    BY <1>0, <2>1, SMTT(30)
<1>3. CASE Accepted
  <2>1. Len(Pipe) <= 3
    BY <1>3, Zenon DEF Accepted
  <2>. QED
    BY <1>0, <2>1, SMTT(30)
<1>4. CASE Offered
  BY <1>0, <1>4, Zenon DEF Offered
<1>. QED
  BY <1>1, <1>2, <1>3, <1>4, RecoveryStages, Zenon

(* A step that moves no message.                                           *)
LEMMA RecoveryKept ==
  ASSUME RecoveryState, UNCHANGED <<src, tx_fifo, Pipe, last_received_msg_id_, trigger>>,
         Counting', SendDue' => SendDue
  PROVE  RecoveryState'
BY Zenon DEF RecoveryState, RecoveryIds, RecoverySteps, Answers

(* The trigger task handles an answer.                                     *)
LEMMA RecoveryHandled ==
  ASSUME Orderly, TypeOK, TypeOK', DueInv, Recovering, RecoveryState, TriggerReceive, Recovering'
  PROVE  RecoveryState'
<1>. DEFINE m == Pipe[1]
<1>0. /\ m \in Messages /\ m = Head(message_queue_)
      /\ Len(Pipe) \in Nat /\ Len(Pipe) >= 1 /\ Len(Pipe') = Len(Pipe) - 1
      /\ \A i \in 1..Len(Pipe') : Pipe'[i] = Pipe[i + 1]
  BY PipeTaken, PipeElement, SMTT(30)
<1>1. /\ Handles(m) /\ UNCHANGED <<src, pc, reader>>
      /\ trigger' = IF StartsSoftReset(m) THEN "soft_reset" ELSE "receive"
  BY <1>0, MessageHandled, Zenon DEF TriggerReceive, Orderly
<1>. HIDE DEF m
<1>2. ~Asked
  <2>1. Pipe # <<>>
    BY <1>0, SMTT(30)
  <2>. QED
    BY <2>1, Zenon DEF Asked
<1>3. 1 \in 1..Len(Pipe) /\ \A i \in 1..Len(Pipe') : i + 1 \in 1..Len(Pipe)
  BY <1>0, SMTT(30)
<1>4. m.type \in {"GOODCRC", "ACCEPT", "SOURCE_CAP"} /\ tx_fifo = <<>>
  BY <1>2, <1>3, RecoveryStages, Zenon DEF m, RecoveryState, Heard, Accepted, Offered, Answers
<1>5. m.type # "SOURCE_CAP"
  <2>. SUFFICES ASSUME m.type = "SOURCE_CAP"
                PROVE  FALSE
    BY Zenon
  <2>1. m.id = 1 /\ m.objs # <<>>
    BY <1>3, Zenon DEF m, RecoveryState, RecoveryIds
  <2>2. last_received_msg_id_ # 1
    BY SMTT(30) DEF RecoveryState, NO_MSG_ID
  <2>3. wait_src_cap_' = FALSE
    BY <1>1, <2>1, <2>2, Zenon DEF Handles
  <2>. QED
    BY <2>3, Zenon DEF Recovering
<1>6. tx_fifo' = <<>> /\ last_received_msg_id_' \in {NO_MSG_ID, 0} /\ trigger' = "receive"
  <2>1. tx_fifo' = tx_fifo /\ ~StartsSoftReset(m)
    BY <1>1, <1>4, <1>5, Zenon DEF Handles, Unanswered, StartsSoftReset
  <2>2. CASE m.type = "GOODCRC"
    <3>1. last_received_msg_id_' = last_received_msg_id_
      BY <1>1, <1>3, <2>2, Zenon DEF m, Handles, RecoveryState, RecoveryIds
    <3>. QED
      BY <1>1, <1>4, <2>1, <3>1, Zenon DEF RecoveryState
  <2>3. CASE m.type = "ACCEPT"
    <3>1. last_received_msg_id_' = 0
      BY <1>1, <1>3, <2>3, Zenon DEF m, Handles, RecoveryState, RecoveryIds
    <3>. QED
      BY <1>1, <1>4, <2>1, <3>1, Zenon
  <2>. QED
    BY <1>4, <1>5, <2>2, <2>3, Zenon
<1>7. SendDue' => SendDue
  <2>1. /\ expired' \subseteq expired /\ get_src_cap_retry_count_' = get_src_cap_retry_count_
        /\ pc' = pc /\ wait_src_cap_ /\ trigger # "none"
    BY <1>1, HandlersEndTheWait, Zenon DEF Handles, Recovering, RecoveryState
  <2>. QED
    BY <2>1, Zenon DEF SendDue, CapExpired, Armed
<1>8. RecoveryIds'
  BY <1>0, <1>3, Zenon DEF RecoveryIds, RecoveryState
<1>9. RecoverySteps'
  <2>1. ASSUME NEW types, \A i \in 1..Len(Pipe) : Pipe[i].type \in types
        PROVE  \A i \in 1..Len(Pipe') : Pipe'[i].type \in types
    BY <1>0, <1>3, <2>1, Zenon
  <2>2. /\ Len(Pipe) <= 1 => Len(Pipe') <= 1
        /\ Len(Pipe) <= 3 => Len(Pipe') <= 3
        /\ Len(Pipe) <= 5 => Len(Pipe') <= 5
    BY <1>0, SMTT(30)
  <2>3. CASE Heard
    BY <1>1, <1>6, <2>1, <2>2, <2>3, RecoveryStages, Zenon DEF Heard, Answers
  <2>4. CASE Accepted
    BY <1>1, <1>6, <2>1, <2>2, <2>4, RecoveryStages, Zenon DEF Accepted, Answers
  <2>5. CASE Offered
    <3>1. PICK i \in 1..Len(Pipe) : Pipe[i].type = "SOURCE_CAP"
      BY <2>5, Zenon DEF Offered
    <3>2. i # 1
      BY <1>5, <3>1, Zenon DEF m
    <3>3. i - 1 \in 1..Len(Pipe') /\ (i - 1) + 1 = i
      BY <1>0, <3>2, SMTT(30)
    <3>4. \E j \in 1..Len(Pipe') : Pipe'[j].type = "SOURCE_CAP"
      BY <1>0, <3>1, <3>3, Zenon
    <3>. QED
      BY <1>1, <1>6, <2>1, <2>2, <2>5, <3>4, RecoveryStages, Zenon DEF Offered, Answers
  <2>. QED
    BY <1>2, <2>3, <2>4, <2>5, RecoveryStages, Zenon DEF RecoveryState
<1>10. Counting'
  BY <1>1, Zenon DEF RecoveryState, Counting
<1>. QED
  BY <1>6, <1>7, <1>8, <1>9, <1>10, Zenon DEF RecoveryState

(* The source answers.                                                     *)
LEMMA RecoveryEmitted ==
  ASSUME Orderly, TypeOK, TypeOK', PhaseInv, FifoInv, ExchangeInv, Recovering, RecoveryState,
         SourceStep \/ SourceExtra
  PROVE  RecoveryState'
<1>1. SourceStep
  BY RecoveryBusy, SourceExtraEmits, Zenon DEF Orderly
<1>2. PICK m \in Messages : ~SourceQuiet /\ Emits(m)
  BY <1>1, SourceStepEmits, Zenon
<1>3. UNCHANGED <<message_queue_, Held, tx_fifo, trigger, idVars, pc, reader, capVars, expired>>
  BY <1>1, SourceRaisesIrq, Zenon DEF taskVars, pdVars, Held
<1>4. Heard \/ Accepted
  <2>1. ~Offered
    BY <1>2, Zenon DEF Offered, SourceQuiet
  <2>2. ~Asked
    <3>1. Asked => tx_fifo # <<>>
      <4>1. tx_fifo = <<>> => Len(tx_fifo) # 1
        BY SMTT(30)
      <4>. QED
        BY <4>1, Zenon DEF Asked
    <3>2. Exchanging
      BY Zenon DEF Recovering, RecoveryState, Exchanging
    <3>. QED
      BY <1>2, <3>1, <3>2, Zenon DEF ExchangeInv, OneAtATime
  <2>. QED
    BY <2>1, <2>2, RecoveryStages, Zenon DEF RecoveryState
<1>5. /\ Len(Pipe) \in Nat /\ Len(Pipe') \in {Len(Pipe) + 1, Len(Pipe) + 2}
      /\ Len(Pipe) + 1 \in 1..Len(Pipe') /\ Pipe'[Len(Pipe) + 1] = m
      /\ \A i \in 1..Len(Pipe) : i \in 1..Len(Pipe') /\ Pipe'[i] = Pipe[i]
      /\ \A i \in 1..Len(Pipe') : i \in 1..Len(Pipe) \/ Pipe'[i] = m
  BY <1>2, <1>3, PipeEmitted, Zenon DEF Emits
<1>6. ~SendDue' /\ Counting' /\ trigger' = "receive" /\ last_received_msg_id_' \in {NO_MSG_ID, 0}
  BY <1>3, DueSame, Zenon DEF RecoveryState, Counting, idVars
<1>7. CASE Heard
  <2>1. m.type = "ACCEPT" /\ m.id = 0 /\ src'.mode = "caps" /\ src'.id = 1
    BY <1>2, <1>7, Zenon DEF Heard, Emits
  <2>2. Len(Pipe') <= 3
    <3>1. Len(Pipe) <= 1
      BY <1>7, Zenon DEF Heard
    <3>. QED
      BY <1>5, <3>1, SMTT(30)
  <2>3. RecoveryIds'
    BY <1>5, <2>1, Zenon DEF RecoveryState, RecoveryIds
  <2>4. Answers({"GOODCRC", "ACCEPT"})'
    BY <1>3, <1>5, <1>7, <2>1, Zenon DEF Heard, Answers
  <2>5. Accepted'
    BY <2>1, <2>2, <2>4, Zenon DEF Accepted
  <2>. QED
    BY <1>6, <2>3, <2>5, RecoveryStages, Zenon DEF RecoveryState
<1>8. CASE Accepted
  <2>1. m.type = "SOURCE_CAP" /\ m.id = 1 /\ m.objs # <<>> /\ src'.mode = "wait_req"
    BY <1>2, <1>8, Zenon DEF Accepted, Emits, Recovering
  <2>2. Len(Pipe') <= 5
    <3>1. Len(Pipe) <= 3
      BY <1>8, Zenon DEF Accepted
    <3>. QED
      BY <1>5, <3>1, SMTT(30)
  <2>3. RecoveryIds'
    BY <1>5, <2>1, Zenon DEF RecoveryState, RecoveryIds
  <2>4. Answers({"GOODCRC", "ACCEPT", "SOURCE_CAP"})'
    BY <1>3, <1>5, <1>8, <2>1, Zenon DEF Accepted, Answers
  <2>5. Offered'
    BY <1>5, <2>1, <2>2, <2>4, Zenon DEF Offered
  <2>. QED
    BY <1>6, <2>3, <2>5, RecoveryStages, Zenon DEF RecoveryState
<1>. QED
  BY <1>4, <1>7, <1>8, Zenon

(* The source hears the soft reset.                                        *)
LEMMA RecoveryHeard ==
  ASSUME TypeOK, TypeOK', RecoveryState, SourceReceives
  PROVE  RecoveryState'
<1>. DEFINE g == CntrlMsg("GOODCRC", Head(tx_fifo).id)
<1>1. /\ tx_fifo # <<>> /\ tx_fifo' = Tail(tx_fifo)
      /\ rx_fifo' = Append(rx_fifo, g) /\ Head(tx_fifo).id \in 0..7
      /\ UNCHANGED <<message_queue_, Held, trigger, idVars, pc, capVars, expired, reader>>
  BY SourceHears, Zenon DEF SourceReceives, Held, taskVars
<1>2. g \in Messages /\ g.type = "GOODCRC" /\ g.objs = <<>>
  BY <1>1, MessageTypes, Zenon DEF MsgTypes, CntrlMsg, Msg
<1>. HIDE DEF g
<1>3. Asked
  BY <1>1, RecoveryStages, Zenon DEF RecoveryState, Heard, Accepted, Offered, Answers
<1>4. tx_fifo' = <<>> /\ src'.mode = "reset"
  BY <1>1, <1>3, TxShape, SourceHears, Zenon DEF Asked
<1>5. /\ Len(Pipe) \in Nat /\ Len(Pipe') = Len(Pipe) + 1 /\ Pipe'[Len(Pipe) + 1] = g
  BY <1>1, <1>2, PipeGrown, Zenon
<1>6. Len(Pipe) = 0
  <2>1. Pipe = <<>>
    BY <1>3, Zenon DEF Asked
  <2>. QED
    BY <2>1, SMTT(30)
<1>7. Len(Pipe') <= 1 /\ \A i \in 1..Len(Pipe') : i = Len(Pipe) + 1
  BY <1>5, <1>6, SMTT(30)
<1>8. \A i \in 1..Len(Pipe') : Pipe'[i] = g
  BY <1>5, <1>7, Zenon
<1>9. RecoveryIds' /\ Answers({"GOODCRC"})'
  BY <1>2, <1>4, <1>8, Zenon DEF RecoveryIds, Answers
<1>10. Heard'
  BY <1>4, <1>7, <1>9, Zenon DEF Heard
<1>11. ~SendDue' /\ Counting' /\ trigger' = "receive" /\ last_received_msg_id_' \in {NO_MSG_ID, 0}
  BY <1>1, DueSame, Zenon DEF RecoveryState, Counting, idVars
<1>. QED
  BY <1>9, <1>10, <1>11, RecoveryStages, Zenon DEF RecoveryState

(* check_status_ sends the soft reset.                                     *)
LEMMA RecoveryBegins ==
  ASSUME Orderly, TypeOK, TypeOK', PhaseInv, SoftResetInv, DueInv, LoopSend, Recovering'
  PROVE  RecoveryState'
<1>1. /\ UNCHANGED <<src, trigger, reader, message_queue_, Held, rx_fifo, isr, expired,
                     last_received_msg_id_>>
      /\ pc = "send" /\ pc' = "timer"
  BY Zenon DEF LoopSend, taskVars, chipVars, Held, idVars
<1>2. SendDue /\ src.plugged
  BY <1>1, TasksExist, Zenon DEF Recovering, SendDue, DuePcs
<1>3. /\ tx_fifo = <<>> /\ trigger = "receive" /\ reader = "wait" /\ message_queue_ = <<>>
      /\ rx_fifo = <<>> /\ last_received_msg_id_ = NO_MSG_ID /\ "cap" \notin expired
  BY <1>1, <1>2, Zenon DEF DueInv, DuePcs
<1>4. Held' = <<>>
  BY <1>1, <1>3, Zenon DEF Held
<1>5. Pipe' = <<>>
  BY <1>1, <1>3, <1>4, SMTT(30) DEF Pipe
<1>6. \A i \in 1..Len(Pipe') : FALSE
  BY <1>5, SMTT(30)
<1>7. PICK x \in SinkMessages : x.type = "SOFT_RESET" /\ tx_fifo' = Append(tx_fifo, x)
  BY SoftResetSent, Zenon DEF Orderly
<1>8. tx_fifo' = <<x>>
  BY <1>3, <1>7, TxShape, Zenon
<1>9. Len(tx_fifo') = 1 /\ tx_fifo'[1] = x
  BY <1>8, SMTT(30)
<1>10. Asked'
  BY <1>5, <1>7, <1>9, Zenon DEF Asked
<1>11. ~SendDue' /\ Counting'
  BY <1>1, <1>3, Zenon DEF SendDue, DuePcs, CapExpired, Counting
<1>. QED
  BY <1>1, <1>3, <1>6, <1>10, <1>11, RecoveryStages, Zenon DEF RecoveryState, RecoveryIds

(* What ends it, or is not part of it.                                     *)
LEMMA NotRecovering ==
  ASSUME Orderly, TypeOK, PhaseInv, SoftResetInv, AttachInv, TimeoutPlaces,
         \/ Setup \/ LoopDetachReset \/ LoopReattachReset \/ LoopSoftReset \/ LoopSpawn \/ TriggerCreate
         \/ Plug \/ Unplug \/ Reboot
  PROVE  ~Recovering'
<1>. USE DEF Orderly, taskVars, capVars, pdVars, hwVars
<1>1. CASE Setup \/ LoopSpawn
  <2>1. ~isr'
    BY <1>1, Zenon DEF Setup, LoopSpawn, PhaseInv, Starting, Measuring, Spawning, Running,
       Stopped, LaterPcs
  <2>. QED
    BY <2>1, Zenon DEF Recovering
<1>2. CASE LoopDetachReset
  <2>1. src' = src /\ ~src.plugged
    BY <1>2, Zenon DEF LoopDetachReset, AttachInv
  <2>. QED
    BY <2>1, Zenon DEF Recovering
<1>3. CASE LoopReattachReset
  <2>1. UNCHANGED <<isr, hw_state_, wait_src_cap_>> /\ pc = "reattach_reset"
    BY <1>3, Zenon DEF LoopReattachReset
  <2>2. isr => ~wait_src_cap_
    BY <2>1, Zenon DEF AttachInv, TimeoutPlaces
  <2>. QED
    BY <2>1, <2>2, Zenon DEF Recovering
<1>4. CASE LoopSoftReset
  <2>1. tried_soft_reset_' = tried_soft_reset_ /\ ~tried_soft_reset_
    BY <1>4, Zenon DEF LoopSoftReset, SoftResetInv
  <2>. QED
    BY <2>1, Zenon DEF Recovering
<1>5. CASE TriggerCreate
  <2>1. tried_soft_reset_' = tried_soft_reset_ /\ trigger = "create"
    BY <1>5, Zenon DEF TriggerCreate
  <2>2. ~isr /\ ~failed
    BY <2>1, TasksExist, Zenon DEF Spawning
  <2>. QED
    BY <2>1, <2>2, Zenon DEF Recovering, TimeoutPlaces
<1>6. CASE Plug
  <2>1. UNCHANGED <<isr, wait_src_cap_>> /\ Settled /\ ~auto_crc
    BY <1>6, Zenon DEF Plug
  <2>2. isr => hw_state_ = "UNATTACHED" /\ pc # "arm"
    BY <2>1, Zenon DEF Settled, LoopAtRest, TimeoutPlaces
  <2>. QED
    BY <2>1, <2>2, Zenon DEF Recovering, TimeoutPlaces
<1>7. CASE Unplug
  <2>1. src' = NoSource
    BY <1>7, Zenon DEF Unplug
  <2>2. ~src'.plugged
    BY <2>1, SMTT(30) DEF NoSource
  <2>. QED
    BY <2>2, Zenon DEF Recovering
<1>8. CASE Reboot
  BY <1>8, Zenon DEF Reboot, Recovering
<1>. QED
  BY <1>1, <1>2, <1>3, <1>4, <1>5, <1>6, <1>7, <1>8, Zenon

(* Where it goes on, it was under way before.                              *)
LEMMA RecoveryGoesOn ==
  ASSUME Orderly, MaxRequests = 0, TypeOK, TimeoutPlaces, [Next]_vars, Recovering',
         \/ Aside \/ TriggerReceive \/ TriggerSoftReset \/ ReaderReset \/ ReaderDrain \/ ReaderEnqueue
         \/ TxLost \/ SourceStep \/ SourceExtra \/ SourceReceives
  PROVE  Recovering
<1>. USE DEF Orderly, taskVars, capVars, pdVars
<1>1. CASE LoopAside
  <2>1. UNCHANGED <<src, isr>>
    BY <1>1, LoopAsideKeeps, Zenon DEF flowVars
  <2>2. ~RequestVoltage
    <3>1. budget.request = 0
      BY Zenon DEF TimeoutPlaces
    <3>2. ~(budget.request > 0)
      BY <3>1, SMTT(30)
    <3>. QED
      BY <3>2, Zenon DEF RequestVoltage
  <2>3. tried_soft_reset_' => tried_soft_reset_ /\ (wait_src_cap_' => wait_src_cap_)
    <3>1. CASE LoopArm
      BY <3>1, Zenon DEF LoopArm
    <3>2. CASE LoopStart
      BY <3>2, Zenon DEF LoopStart
    <3>3. CASE LoopPdTimeout
      BY <3>3, Zenon DEF LoopPdTimeout
    <3>4. CASE \/ RunDeferred \/ LoopDetachState \/ LoopCcIdle \/ LoopCcSettle1 \/ LoopCcSettle2
               \/ LoopReattachCrc
      BY <3>4, Zenon DEF RunDeferred, LoopDetachState, LoopCcIdle, LoopCcSettle1, LoopCcSettle2,
         LoopReattachCrc
    <3>5. CASE LoopAttached \/ LoopTimer
      BY <3>5, Zenon DEF LoopAttached, LoopTimer
    <3>. QED
      BY <1>1, <2>2, <3>1, <3>2, <3>3, <3>4, <3>5, Zenon DEF LoopAside
  <2>. QED
    BY <2>1, <2>3, Zenon DEF Recovering
<1>2. CASE ReaderAside \/ ReaderReset \/ ReaderDrain \/ ReaderEnqueue
  BY <1>2, Zenon DEF ReaderAside, ReaderCrc, ReaderWake, ReaderStatus, ReaderReset, ReaderDrain,
     ReaderEnqueue, Recovering
<1>3. CASE Elapse \/ TxLost \/ UNCHANGED vars
  BY <1>3, Zenon DEF Elapse, TxLost, vars, Recovering
<1>4. CASE TriggerReceive \/ TriggerSoftReset
  <2>1. UNCHANGED <<src, isr, tried_soft_reset_>>
    BY <1>4, HandlersEndTheWait, Zenon DEF TriggerReceive, TriggerSoftReset
  <2>2. wait_src_cap_' => wait_src_cap_
    <3>1. CASE wait_src_cap_' = wait_src_cap_
      BY <3>1, Zenon
    <3>2. CASE wait_src_cap_' = FALSE
      BY <3>2, Zenon
    <3>. QED
      BY <1>4, <3>1, <3>2, HandlersEndTheWait, Zenon
  <2>. QED
    BY <2>1, <2>2, Zenon DEF Recovering
<1>5. CASE SourceStep \/ SourceExtra
  <2>1. UNCHANGED <<isr, tried_soft_reset_, wait_src_cap_>>
    BY <1>5, SourceRaisesIrq, Zenon
  <2>2. src.plugged /\ src'.caps = src.caps
    BY <1>5, SourceStepEmits, SourceExtraEmits, Zenon DEF Emits
  <2>. QED
    BY <2>1, <2>2, Zenon DEF Recovering
<1>6. CASE SourceReceives
  <2>1. UNCHANGED <<isr, tried_soft_reset_, wait_src_cap_>> /\ src.plugged /\ src.caps # <<>>
    BY <1>6, Zenon DEF SourceReceives
  <2>. QED
    BY <2>1, Zenon DEF Recovering
<1>. HIDE DEF Orderly, taskVars, capVars, pdVars
<1>. QED
  BY <1>1, <1>2, <1>3, <1>4, <1>5, <1>6, Zenon DEF Aside

(* In every step.                                                          *)
LEMMA RecoveryStep ==
  ASSUME Orderly, MaxRequests = 0, QueueLength >= 5, TypeOK, TypeOK', PhaseInv, FifoInv, SoftResetInv,
         DueInv, AttachInv, ExchangeInv, TimeoutPlaces, Recovering => RecoveryState,
         [Next]_vars, Recovering'
  PROVE  RecoveryState'
<1>. USE DEF Orderly
<1>1. CASE LoopSend
  BY <1>1, RecoveryBegins, Zenon
<1>. DEFINE Goes == \/ Aside \/ TriggerReceive \/ TriggerSoftReset \/ ReaderReset \/ ReaderDrain
                    \/ ReaderEnqueue \/ TxLost \/ SourceStep \/ SourceExtra \/ SourceReceives
<1>2. Goes => Recovering /\ RecoveryState
  BY RecoveryGoesOn, Zenon
<1>3. CASE Aside
  <2>0. Recovering /\ RecoveryState
    BY <1>2, <1>3, Zenon
  <2>1. UNCHANGED <<src, tx_fifo, Pipe, last_received_msg_id_, trigger>>
    BY <1>3, AsideKeeps, Zenon DEF flowVars, idVars
  <2>2. CASE LoopAside
    <3>1. Counting' /\ (SendDue' => SendDue)
      BY <2>0, <2>2, LoopAsideKeeps, DueAside, Zenon DEF Counting, RecoveryState
    <3>. QED
      BY <2>0, <2>1, <3>1, RecoveryKept, Zenon
  <2>3. CASE ReaderAside
    <3>1. UNCHANGED <<pc, capVars, expired>>
      BY <2>3, Zenon DEF ReaderAside, ReaderCrc, ReaderWake, ReaderStatus, pdVars
    <3>2. Counting'
      BY <2>0, <2>3, Zenon DEF ReaderAside, ReaderCrc, ReaderWake, ReaderStatus, Counting,
         RecoveryState
    <3>. QED
      BY <2>0, <2>1, <3>1, <3>2, DueSame, RecoveryKept, Zenon
  <2>4. CASE Elapse
    <3>1. Settled /\ SourceQuiet
      BY <2>4, Zenon DEF Elapse
    <3>. QED
      BY <2>0, <3>1, RecoveryBusy, Zenon
  <2>5. CASE UNCHANGED vars
    <3>1. UNCHANGED <<pc, capVars, expired, reader>>
      BY <2>5, Zenon DEF vars, pdVars, taskVars
    <3>. QED
      BY <2>0, <2>1, <3>1, DueSame, RecoveryKept, Zenon DEF Counting, RecoveryState
  <2>. QED
    BY <1>3, <2>2, <2>3, <2>4, <2>5, Zenon DEF Aside
<1>4. CASE TriggerReceive
  BY <1>2, <1>4, RecoveryHandled, Zenon
<1>5. CASE TriggerSoftReset \/ ReaderReset
  BY <1>2, <1>5, Zenon DEF TriggerSoftReset, ReaderReset, RecoveryState, Counting
<1>6. CASE ReaderDrain \/ ReaderEnqueue
  <2>0. Recovering /\ RecoveryState
    BY <1>2, <1>6, Zenon
  <2>1. UNCHANGED <<src, tx_fifo, last_received_msg_id_, trigger, pc, capVars, expired>> /\ Counting'
    BY <1>6, Zenon DEF ReaderDrain, ReaderEnqueue, pdVars, idVars, Counting
  <2>2. Pipe' = Pipe
    <3>1. CASE ReaderDrain
      BY <3>1, PipeFetched, Zenon
    <3>2. CASE ReaderEnqueue
      <4>1. Len(Pipe) \in Nat /\ Len(Pipe) <= 5
        BY <2>0, RecoveryShort, Zenon DEF RecoveryState
      <4>2. Held = <<rmsg>>
        BY <3>2, Zenon DEF ReaderEnqueue, Held
      <4>3. Len(Held) = 1
        BY <4>2, SMTT(30)
      <4>4. ~(Len(message_queue_) >= QueueLength)
        BY <4>1, <4>3, PipeElement, QueueLengthAssumption, SMTT(30)
      <4>. QED
        BY <3>2, <4>4, PipeQueued, Zenon
    <3>. QED
      BY <1>6, <3>1, <3>2, Zenon
  <2>. QED
    BY <2>0, <2>1, <2>2, DueSame, RecoveryKept, Zenon
<1>7. CASE TxLost
  BY <1>2, <1>7, Zenon DEF TxLost, Recovering
<1>8. CASE SourceStep \/ SourceExtra
  BY <1>2, <1>8, RecoveryEmitted, Zenon
<1>9. CASE SourceReceives
  BY <1>2, <1>9, RecoveryHeard, Zenon
<1>. QED
  BY <1>1, <1>3, <1>4, <1>5, <1>6, <1>7, <1>8, <1>9, NotRecovering, StepKinds, Zenon

(* At the start and in every step.                                         *)
LEMMA TimeoutInit == Init => TimeoutInv
<1>. SUFFICES ASSUME Init
              PROVE  TimeoutInv
  BY Zenon
<1>1. pc = "setup" /\ ~isr /\ ~tried_soft_reset_ /\ budget.request = MaxRequests
  BY Zenon DEF Init, PowerUp, PdInit
<1>. QED
  BY <1>1, TimeoutParts, RecoveryParts, Zenon DEF TimeoutPlaces, Recovering

(* Every step keeps TimeoutInv.                                            *)
LEMMA TimeoutStep ==
  ASSUME Orderly, MaxRequests = 0, QueueLength >= 5, DriverInv, DriverInv', FlowInv, TimeoutInv,
         [Next]_vars
  PROVE  TimeoutInv'
<1>1. TypeOK /\ TypeOK' /\ PhaseInv /\ FifoInv /\ SoftResetInv
  BY Zenon DEF DriverInv
<1>2. AttachInv /\ DueInv /\ ExchangeInv
  BY Zenon DEF FlowInv
<1>3. TimeoutPlaces /\ (Recovering => RecoveryState)
  BY TimeoutParts, RecoveryParts, Zenon
<1>4. TimeoutPlaces'
  BY <1>1, <1>2, TimeoutPlacesStep, Zenon
<1>5. Recovering' => RecoveryState'
  BY <1>1, <1>2, <1>3, RecoveryStep, Zenon
<1>. QED
  BY <1>4, <1>5, TimeoutParts, RecoveryParts, Zenon

(* check_status_ reports PD_TIMEOUT only with a partner that does not speak*)
(* power delivery: every source that does answers the soft reset with its  *)
(* capabilities before the wait is over, and the answer is neither dropped *)
(* by the queue nor taken for a retransmission.  The proof needs the five  *)
(* places the queue has, and that no automation asks for another voltage   *)
(* meanwhile: request_voltage starts the wait again without a soft reset.  *)
THEOREM TimeoutsAreTrue ==
  ASSUME Orderly, MaxRequests = 0, QueueLength >= 5
  PROVE  Spec => TimeoutOnlyWithoutPd
<1>1. Init => TimeoutInv
  BY TimeoutInit, Zenon
<1>2. DriverInv /\ DriverInv' /\ FlowInv /\ TimeoutInv /\ [Next]_vars => TimeoutInv'
  BY TimeoutStep, Zenon
<1>3. TimeoutInv /\ [Next]_vars => [LoopPdTimeout => ~src.plugged \/ src.caps = <<>>]_vars
  BY TimeoutParts, Zenon DEF TimeoutPlaces, LoopPdTimeout
<1>. QED
  BY <1>1, <1>2, <1>3, DriverInvariant, FlowInvariant, PTL DEF Spec, TimeoutOnlyWithoutPd
=============================================================================
