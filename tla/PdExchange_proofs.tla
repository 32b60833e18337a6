-------------------------- MODULE PdExchange_proofs --------------------------
(***************************************************************************)
(* The exchange of messages between the driver and the source, for every   *)
(* set of sources and every bound on the environment: a REQUEST goes only  *)
(* to a source that waits for it.  The last section says what has not been *)
(* exchanged yet when a source is plugged in.                              *)
(***************************************************************************)
EXTENDS FUSB302B_proofs

-----------------------------------------------------------------------------
(* One exchange at a time.                                                 *)

(* A step that moves no message keeps it ...                               *)
LEMMA ExchangeKept == ExchangeInv /\ UNCHANGED flowVars => ExchangeInv'
BY Zenon DEF ExchangeInv, QuestionsOpen, OneAtATime, RequestsAwaited, RequestOnlyWhenAsked,
   Exchanging, Spent, Pending, Waits, SourceQuiet, flowVars, idVars

(* ... and so does resetting the chip, but for a retransmission that the   *)
(* driver would no longer recognise.                                       *)
LEMMA ExchangeReset ==
  ASSUME TypeOK, TypeOK', ExchangeInv, "i2c" \notin Faults, fusb_reset_,
         UNCHANGED <<message_queue_, Held, src, trigger>>,
         Exchanging => OnlyGoodCrc \/ "dup" \notin Faults \/ (message_queue_ = <<>> /\ Held = <<>>)
  PROVE  ExchangeInv'
<1>1. rx_fifo' = <<>> /\ tx_fifo' = <<>>
  BY Zenon DEF fusb_reset_
<1>2. /\ Len(Pipe') <= Len(Pipe) /\ Len(Pipe) \in Nat /\ Len(Pipe') \in Nat
      /\ \A i \in 1..Len(Pipe') : Pipe'[i] = Pipe[i]
      /\ message_queue_ = <<>> /\ Held = <<>> => Len(Pipe') = 0
  BY <1>1, PipeCut, PipeElement, SMTT(30)
<1>3. QuestionsOpen'
  <2>. SUFFICES ASSUME Exchanging', NEW i \in 1..Len(Pipe'), Pipe'[i].type \notin Unanswered
                PROVE  Pending(i)'
    BY Zenon DEF QuestionsOpen
  <2>1. i \in 1..Len(Pipe) /\ Pipe[i].type \notin Unanswered /\ Exchanging
    BY <1>2, SMTT(30) DEF Exchanging
  <2>2. ~OnlyGoodCrc
    BY <2>1, Zenon DEF OnlyGoodCrc, Unanswered
  <2>3. ~(message_queue_ = <<>> /\ Held = <<>>)
    BY <1>2, SMTT(30)
  <2>4. "dup" \notin Faults
    BY <2>1, <2>2, <2>3, Zenon
  <2>5. Pending(i) /\ i = Len(Pipe)
    BY <2>1, <2>4, Zenon DEF ExchangeInv, QuestionsOpen, Spent, Pending
  <2>6. i = Len(Pipe') /\ Pipe'[i] = Pipe[i]
    BY <1>2, <2>5, SMTT(30)
  <2>. QED
    BY <1>1, <2>5, <2>6, Zenon DEF Pending, Waits
<1>4. OneAtATime' /\ RequestOnlyWhenAsked'
  BY <1>1, Zenon DEF OneAtATime, RequestOnlyWhenAsked, ExchangeInv
<1>5. RequestsAwaited'
  BY <1>1, SMTT(30) DEF RequestsAwaited
<1>. QED
  BY <1>3, <1>4, <1>5, Zenon DEF ExchangeInv

(* While the handlers are not there yet, or the source is not.             *)
LEMMA NoExchange ==
  ASSUME ~Exchanging', RequestsAwaited', RequestOnlyWhenAsked'
  PROVE  ExchangeInv'
BY Zenon DEF ExchangeInv, QuestionsOpen, OneAtATime

(* The trigger task handles the first message of the pipe.                 *)
LEMMA ExchangeHandled ==
  ASSUME TypeOK, TypeOK', ExchangeInv, "i2c" \notin Faults, TriggerReceive
  PROVE  ExchangeInv'
<1>. DEFINE m == Pipe[1]
<1>0. /\ m \in Messages /\ m = Head(message_queue_)
      /\ Len(Pipe) \in Nat /\ Len(Pipe) >= 1 /\ Len(Pipe') = Len(Pipe) - 1
      /\ \A i \in 1..Len(Pipe') : Pipe'[i] = Pipe[i + 1]
  BY PipeTaken, PipeElement, SMTT(30)
<1>1. Handles(m) /\ src' = src /\ trigger = "receive" /\ trigger' \in {"receive", "soft_reset"}
  BY <1>0, MessageHandled, Zenon DEF TriggerReceive
<1>. HIDE DEF m
<1>2. RequestOnlyWhenAsked'
  BY <1>1, Zenon DEF RequestOnlyWhenAsked, ExchangeInv
<1>3. CASE ~src.plugged
  <2>1. ~Exchanging' /\ RequestsAwaited'
    BY <1>1, <1>3, Zenon DEF Exchanging, RequestsAwaited
  <2>. QED
    BY <1>2, <2>1, NoExchange, Zenon
<1>4. CASE src.plugged /\ (m.type \in Unanswered \/ m.id = last_received_msg_id_ \/ tx_fifo' = tx_fifo)
  <2>1. tx_fifo' = tx_fifo /\ Exchanging
    BY <1>1, <1>4, Zenon DEF Handles, Exchanging, Unanswered
  <2>2. RequestsAwaited'
    BY <1>1, <2>1, Zenon DEF ExchangeInv, RequestsAwaited
  <2>3. OneAtATime'
    <3>1. CASE tx_fifo # <<>>
      <4>1. Len(tx_fifo) = 1 /\ SourceQuiet /\ Len(Pipe) <= 1
        BY <2>1, <3>1, Zenon DEF ExchangeInv, OneAtATime
      <4>2. Len(Pipe') = 0 /\ Len(Pipe') <= 1
        BY <1>0, <4>1, SMTT(30)
      <4>3. \A i \in 1..Len(Pipe') : FALSE
        BY <4>2, SMTT(30)
      <4>. QED
        BY <1>1, <2>1, <4>1, <4>2, <4>3, Zenon DEF OneAtATime, SourceQuiet
    <3>. QED
      BY <2>1, <3>1, Zenon DEF OneAtATime
  <2>4. QuestionsOpen'
    <3>. SUFFICES ASSUME NEW i \in 1..Len(Pipe'), Pipe'[i].type \notin Unanswered
                  PROVE  Spent(i)' \/ Pending(i)'
      BY Zenon DEF QuestionsOpen
    <3>1. i + 1 \in 1..Len(Pipe) /\ Pipe[i + 1] = Pipe'[i] /\ i + 1 # 1 /\ i \in Nat
      BY <1>0, SMTT(30)
    <3>2. Pending(i + 1)
      BY <2>1, <3>1, Zenon DEF ExchangeInv, QuestionsOpen, Spent
    <3>3. Waits(Pipe[i])'
      BY <1>1, <3>1, <3>2, Zenon DEF Pending, Waits
    <3>4. CASE i + 1 = Len(Pipe)
      <4>1. i = Len(Pipe')
        BY <1>0, <3>1, <3>4, SMTT(30)
      <4>. QED
        BY <2>1, <3>2, <3>3, <4>1, Zenon DEF Pending
    <3>5. CASE "dup" \in Faults /\ i + 1 + 1 = Len(Pipe) /\ Pipe[i + 1 + 1] = Pipe[i + 1]
      <4>1. i + 1 = Len(Pipe') /\ i + 1 \in 1..Len(Pipe')
        BY <1>0, <3>1, <3>5, SMTT(30)
      <4>2. Pipe'[i + 1] = Pipe'[i]
        BY <1>0, <3>1, <3>5, <4>1, Zenon
      <4>. QED
        BY <2>1, <3>2, <3>3, <3>5, <4>1, <4>2, Zenon DEF Pending
    <3>. QED
      BY <3>2, <3>4, <3>5, Zenon DEF Pending
  <2>. QED
    BY <1>2, <2>2, <2>3, <2>4, Zenon DEF ExchangeInv
<1>5. CASE /\ src.plugged /\ m.type \notin Unanswered /\ m.id # last_received_msg_id_
           /\ tx_fifo' # tx_fifo
  <2>0. Exchanging /\ 1 \in 1..Len(Pipe)
    BY <1>0, <1>1, <1>5, SMTT(30) DEF Exchanging
  <2>1. Pending(1)
    BY <1>5, <2>0, Zenon DEF ExchangeInv, QuestionsOpen, Spent, m
  <2>2. tx_fifo = <<>> /\ Waits(m)
    BY <2>1, Zenon DEF Pending, m
  <2>3. last_received_msg_id_' = m.id
    BY <1>1, <1>5, Zenon DEF Handles, Unanswered
  <2>20. \E x \in SinkMessages :
          tx_fifo' = Append(tx_fifo, x) /\ (x.type = "REQUEST" => m.type = "SOURCE_CAP")
    BY <1>1, <1>5, Zenon DEF Handles
  <2>4. PICK x \in SinkMessages : tx_fifo' = <<x>> /\ (x.type = "REQUEST" => m.type = "SOURCE_CAP")
    BY <2>2, <2>20, TxShape, Zenon
  <2>5. /\ Len(tx_fifo') = 1 /\ tx_fifo'[1] = x
    BY <2>4, SMTT(30)
  <2>6. SourceQuiet' /\ (m.type = "SOURCE_CAP" => src'.mode = "wait_req")
    BY <1>1, <2>2, Zenon DEF Waits, SourceQuiet
  <2>7. /\ Len(Pipe') <= 1
        /\ \A i \in 1..Len(Pipe') : i = 1 /\ Pipe'[i] = m /\ "dup" \in Faults
    <3>1. CASE Len(Pipe) = 1
      BY <1>0, <3>1, SMTT(30)
    <3>2. CASE "dup" \in Faults /\ 1 + 1 = Len(Pipe) /\ Pipe[1 + 1] = Pipe[1]
      <4>0. Len(Pipe') = Len(Pipe) - 1 /\ Len(Pipe) = 1 + 1
        BY <1>0, <3>2, Zenon
      <4>1. Len(Pipe') <= 1 /\ 1 \in 1..Len(Pipe') /\ \A i \in 1..Len(Pipe') : i = 1
        BY <4>0, SMTT(30)
      <4>2. Pipe'[1] = m
        BY <1>0, <3>2, <4>1, Zenon DEF m
      <4>. QED
        BY <3>2, <4>1, <4>2, Zenon
    <3>. QED
      BY <2>1, <3>1, <3>2, Zenon DEF Pending
  <2>8. QuestionsOpen'
    BY <2>3, <2>7, Zenon DEF QuestionsOpen, Spent
  <2>9. OneAtATime'
    BY <1>5, <2>5, <2>6, <2>7, Zenon DEF OneAtATime
  <2>10. RequestsAwaited'
    BY <2>4, <2>5, <2>6, SMTT(30) DEF RequestsAwaited
  <2>. QED
    BY <1>2, <2>8, <2>9, <2>10, Zenon DEF ExchangeInv
<1>. QED
  BY <1>3, <1>4, <1>5, Zenon

(* A source that waits for an answer owes no message.                      *)
LEMMA WaitingIsQuiet ==
  ASSUME NEW m, Waits(m)
  PROVE  SourceQuiet
BY Zenon DEF Waits, SourceQuiet

(* The source sends a message: no other one of the source asks for an      *)
(* answer, and the driver has sent none.                                   *)
LEMMA ExchangeEmitted ==
  ASSUME TypeOK, TypeOK', ExchangeInv, NEW m \in Messages, Emits(m),
         UNCHANGED <<message_queue_, Held, tx_fifo, trigger, idVars>>,
         SourceQuiet /\ Exchanging => OnlyGoodCrc
  PROVE  ExchangeInv'
<1>1. src.plugged /\ (Exchanging' <=> Exchanging) /\ src'.surprised = src.surprised
  BY Zenon DEF Emits, Exchanging
<1>2. SourceQuiet => tx_fifo = <<>>
  BY Zenon DEF Emits, Settled
<1>3. RequestOnlyWhenAsked'
  BY <1>1, Zenon DEF RequestOnlyWhenAsked, ExchangeInv
<1>4. RequestsAwaited'
  <2>1. ASSUME NEW i \in 1..Len(tx_fifo), tx_fifo[i].type = "REQUEST"
        PROVE  FALSE
    <3>1. SourceQuiet
      BY <1>1, <2>1, Zenon DEF ExchangeInv, RequestsAwaited, SourceQuiet
    <3>. QED
      BY <1>2, <3>1, SMTT(30)
  <2>. QED
    BY <2>1, Zenon DEF RequestsAwaited
<1>5. CASE ~Exchanging
  BY <1>1, <1>3, <1>4, <1>5, NoExchange, Zenon
<1>6. CASE Exchanging
  <2>1. tx_fifo = <<>> /\ tx_fifo' = <<>>
    BY <1>2, <1>6, Zenon DEF ExchangeInv, OneAtATime
  <2>2. OneAtATime'
    BY <2>1, Zenon DEF OneAtATime
  <2>3. /\ Len(Pipe) \in Nat /\ \A i \in 1..Len(Pipe) : Pipe'[i] = Pipe[i]
        /\ \/ Len(Pipe') = Len(Pipe) + 1 /\ Pipe'[Len(Pipe) + 1] = m
           \/ /\ "dup" \in Faults /\ Len(Pipe') = Len(Pipe) + 2
              /\ Pipe'[Len(Pipe) + 1] = m /\ Pipe'[Len(Pipe) + 2] = m
    <3>1. CASE rx_fifo' = Append(rx_fifo, m)
      BY <3>1, PipeGrown, Zenon
    <3>2. CASE "dup" \in Faults /\ rx_fifo' = rx_fifo \o <<m, m>>
      BY <3>2, PipeGrownTwice, Zenon
    <3>. QED
      BY <3>1, <3>2, Zenon DEF Emits
  <2>4. QuestionsOpen'
    <3>. SUFFICES ASSUME NEW i \in 1..Len(Pipe'), Pipe'[i].type \notin Unanswered
                  PROVE  Spent(i)' \/ Pending(i)'
      BY Zenon DEF QuestionsOpen
    <3>1. CASE i \in 1..Len(Pipe)
      <4>1. Pipe[i] = Pipe'[i]
        BY <2>3, <3>1, Zenon
      <4>2. ~SourceQuiet
        BY <1>6, <3>1, <4>1, Zenon DEF OnlyGoodCrc, Unanswered
      <4>3. ~Pending(i)
        BY <4>2, WaitingIsQuiet, Zenon DEF Pending
      <4>4. Spent(i)
        BY <1>6, <3>1, <4>1, <4>3, Zenon DEF ExchangeInv, QuestionsOpen
      <4>. QED
        BY <4>1, <4>4, Zenon DEF Spent, idVars
    <3>2. CASE i \notin 1..Len(Pipe)
      <4>1. /\ Pipe'[i] = m
            /\ \/ i = Len(Pipe')
               \/ "dup" \in Faults /\ i + 1 = Len(Pipe') /\ Pipe'[i + 1] = m
        BY <2>3, <3>2, SMTT(30)
      <4>2. Waits(Pipe[i])'
        BY <4>1, Zenon DEF Emits, Waits
      <4>. QED
        BY <2>1, <4>1, <4>2, Zenon DEF Pending
    <3>. QED
      BY <3>1, <3>2, Zenon
  <2>. QED
    BY <1>3, <1>4, <2>2, <2>4, Zenon DEF ExchangeInv
<1>. QED
  BY <1>5, <1>6, Zenon

(* A message leaves the TX FIFO.                                           *)
LEMMA RequestLeaves ==
  ASSUME TypeOK, RequestsAwaited, src.plugged, tx_fifo # <<>>, tx_fifo' = Tail(tx_fifo)
  PROVE  /\ RequestsAwaited'
         /\ Head(tx_fifo).type = "REQUEST" => src.mode = "wait_req"
<1>1. /\ Len(tx_fifo) \in Nat /\ Len(tx_fifo) # 0 /\ Len(tx_fifo') = Len(tx_fifo) - 1
      /\ Head(tx_fifo) = tx_fifo[1]
      /\ \A i \in 1..Len(tx_fifo') : tx_fifo'[i] = tx_fifo[i + 1]
  BY TxShape, Zenon
<1>2. ASSUME NEW i \in 1..Len(tx_fifo'), tx_fifo'[i].type = "REQUEST"
      PROVE  FALSE
  <2>1. i + 1 \in 1..Len(tx_fifo) /\ i + 1 # 1
    BY <1>1, SMTT(30)
  <2>2. tx_fifo[i + 1].type = "REQUEST"
    BY <1>1, <1>2, Zenon
  <2>. QED
    BY <2>1, <2>2, Zenon DEF RequestsAwaited
<1>3. RequestsAwaited'
  BY <1>2, Zenon DEF RequestsAwaited
<1>4. 1 \in 1..Len(tx_fifo)
  BY <1>1, SMTT(30)
<1>5. Head(tx_fifo).type = "REQUEST" => src.mode = "wait_req"
  BY <1>1, <1>4, SMTT(30) DEF RequestsAwaited
<1>. QED
  BY <1>3, <1>5, Zenon

(* The source receives the driver's message.                               *)
LEMMA ExchangeHeard ==
  ASSUME TypeOK, TypeOK', ExchangeInv, SourceReceives
  PROVE  ExchangeInv'
<1>. DEFINE g == CntrlMsg("GOODCRC", Head(tx_fifo).id)
<1>1. /\ src.plugged /\ src'.plugged /\ tx_fifo # <<>> /\ tx_fifo' = Tail(tx_fifo)
      /\ rx_fifo' = Append(rx_fifo, g) /\ Head(tx_fifo).id \in 0..7
      /\ UNCHANGED <<message_queue_, Held, trigger, idVars>>
  BY SourceHears, Zenon DEF SourceReceives, Held, taskVars
<1>2. g \in Messages /\ g.type = "GOODCRC"
  BY <1>1, MessageTypes, Zenon DEF MsgTypes, CntrlMsg, Msg
<1>. HIDE DEF g
<1>3. RequestsAwaited' /\ (Head(tx_fifo).type = "REQUEST" => src.mode = "wait_req")
  BY <1>1, RequestLeaves, Zenon DEF ExchangeInv
<1>4. RequestOnlyWhenAsked'
  BY <1>3, SourceHears, Zenon DEF RequestOnlyWhenAsked, ExchangeInv
<1>5. CASE ~Exchanging
  <2>1. ~Exchanging'
    BY <1>1, <1>5, Zenon DEF Exchanging
  <2>. QED
    BY <1>3, <1>4, <2>1, NoExchange, Zenon
<1>6. CASE Exchanging
  <2>1. Len(tx_fifo) = 1 /\ Len(Pipe) <= 1 /\ \A i \in 1..Len(Pipe) : Pipe[i].type \notin Unanswered
    BY <1>1, <1>6, Zenon DEF ExchangeInv, OneAtATime
  <2>2. tx_fifo' = <<>>
    BY <1>1, <2>1, TxShape, Zenon
  <2>3. /\ Len(Pipe) \in Nat /\ Len(Pipe') = Len(Pipe) + 1
        /\ \A i \in 1..Len(Pipe) : Pipe'[i] = Pipe[i]
        /\ Pipe'[Len(Pipe) + 1] = g
    BY <1>1, <1>2, PipeGrown, Zenon
  <2>4. QuestionsOpen'
    <3>. SUFFICES ASSUME NEW i \in 1..Len(Pipe'), Pipe'[i].type \notin Unanswered
                  PROVE  Spent(i)' \/ Pending(i)'
      BY Zenon DEF QuestionsOpen
    <3>1. i # Len(Pipe) + 1
      BY <1>2, <2>3, Zenon DEF Unanswered
    <3>2. i \in 1..Len(Pipe)
      BY <2>3, <3>1, SMTT(30)
    <3>3. Pipe[i] = Pipe'[i]
      BY <2>3, <3>2, Zenon
    <3>4. Spent(i)
      BY <1>1, <1>6, <3>2, <3>3, Zenon DEF ExchangeInv, QuestionsOpen, Pending
    <3>. QED
      BY <1>1, <3>3, <3>4, Zenon DEF Spent, idVars
  <2>5. OneAtATime'
    BY <2>2, Zenon DEF OneAtATime
  <2>. QED
    BY <1>3, <1>4, <2>4, <2>5, Zenon DEF ExchangeInv
<1>. QED
  BY <1>5, <1>6, Zenon

(* The reader puts a message into the queue or drops it.                   *)
LEMMA ExchangeQueued ==
  ASSUME TypeOK, TypeOK', ExchangeInv, ReaderEnqueue
  PROVE  ExchangeInv'
<1>1. UNCHANGED <<src, tx_fifo, trigger, idVars>>
  BY Zenon DEF ReaderEnqueue, pdVars
<1>2. CASE Pipe' = Pipe
  BY <1>1, <1>2, Zenon DEF ExchangeInv, QuestionsOpen, OneAtATime, RequestsAwaited,
     RequestOnlyWhenAsked, Exchanging, Spent, Pending, Waits, SourceQuiet, idVars
<1>3. CASE /\ Len(message_queue_) >= QueueLength
           /\ Len(Pipe') = Len(Pipe) - 1
           /\ \A i \in 1..Len(Pipe') :
                Pipe'[i] = IF i <= Len(message_queue_) THEN Pipe[i] ELSE Pipe[i + 1]
  <2>. DEFINE q == Len(message_queue_)
  <2>0. /\ q \in Nat /\ q >= 1 /\ Len(Pipe) \in Nat /\ Len(Pipe) >= q + 1
    <3>1. reader = "enqueue" /\ Held = <<rmsg>>
      BY Zenon DEF ReaderEnqueue, Held
    <3>2. Len(Held) = 1
      BY <3>1, SMTT(30)
    <3>. QED
      BY <1>3, <3>2, PipeElement, QueueLengthAssumption, SMTT(30)
  <2>1. /\ Len(Pipe') = Len(Pipe) - 1
        /\ \A i \in 1..Len(Pipe') : Pipe'[i] = IF i <= q THEN Pipe[i] ELSE Pipe[i + 1]
    BY <1>3, Zenon
  <2>. HIDE DEF q
  <2>2. QuestionsOpen'
    <3>. SUFFICES ASSUME Exchanging', NEW i \in 1..Len(Pipe'), Pipe'[i].type \notin Unanswered
                  PROVE  Spent(i)' \/ Pending(i)'
      BY Zenon DEF QuestionsOpen
    <3>0. Exchanging
      BY <1>1, Zenon DEF Exchanging
    <3>1. CASE i <= q
      <4>1. i \in 1..Len(Pipe) /\ i # Len(Pipe) /\ Pipe'[i] = Pipe[i]
        BY <2>0, <2>1, <3>1, SMTT(30)
      <4>2. Spent(i) \/ Pending(i)
        BY <3>0, <4>1, Zenon DEF ExchangeInv, QuestionsOpen
      <4>3. CASE Spent(i)
        BY <1>1, <4>1, <4>3, Zenon DEF Spent, idVars
      <4>4. CASE Pending(i)
        <5>1. i + 1 = Len(Pipe)
          BY <4>1, <4>4, Zenon DEF Pending
        <5>2. i = Len(Pipe')
          BY <2>0, <2>1, <5>1, SMTT(30)
        <5>. QED
          BY <1>1, <4>1, <4>4, <5>2, Zenon DEF Pending, Waits
      <4>. QED
        BY <4>2, <4>3, <4>4, Zenon
    <3>2. CASE ~(i <= q)
      <4>1. i + 1 \in 1..Len(Pipe) /\ i + 1 # 1 /\ Pipe'[i] = Pipe[i + 1] /\ i \in Nat
        BY <2>0, <2>1, <3>2, SMTT(30)
      <4>2. Pending(i + 1)
        BY <3>0, <4>1, Zenon DEF ExchangeInv, QuestionsOpen, Spent
      <4>3. CASE i + 1 = Len(Pipe)
        <5>1. i = Len(Pipe')
          BY <2>0, <2>1, <4>3, SMTT(30)
        <5>. QED
          BY <1>1, <4>1, <4>2, <5>1, Zenon DEF Pending, Waits
      <4>4. CASE "dup" \in Faults /\ i + 1 + 1 = Len(Pipe) /\ Pipe[i + 1 + 1] = Pipe[i + 1]
        <5>1. i + 1 = Len(Pipe') /\ i + 1 \in 1..Len(Pipe') /\ ~(i + 1 <= q)
          BY <2>0, <2>1, <3>2, <4>1, <4>4, SMTT(30)
        <5>2. Pipe'[i + 1] = Pipe'[i]
          BY <2>1, <4>1, <4>4, <5>1, Zenon
        <5>. QED
          BY <1>1, <4>1, <4>2, <4>4, <5>1, <5>2, Zenon DEF Pending, Waits
      <4>. QED
        BY <4>2, <4>3, <4>4, Zenon DEF Pending
    <3>. QED
      BY <3>1, <3>2, Zenon
  <2>3. OneAtATime'
    <3>1. ASSUME Exchanging, tx_fifo # <<>>
          PROVE  FALSE
      <4>1. Len(Pipe) <= 1
        BY <3>1, Zenon DEF ExchangeInv, OneAtATime
      <4>. QED
        BY <2>0, <4>1, SMTT(30)
    <3>. QED
      BY <1>1, <3>1, Zenon DEF OneAtATime, Exchanging
  <2>4. RequestsAwaited' /\ RequestOnlyWhenAsked'
    BY <1>1, Zenon DEF ExchangeInv, RequestsAwaited, RequestOnlyWhenAsked
  <2>. QED
    BY <2>2, <2>3, <2>4, Zenon DEF ExchangeInv
<1>. QED
  BY <1>2, <1>3, PipeQueued, Zenon

(* The tasks exist from the step that creates them on.                     *)
LEMMA TasksExist ==
  ASSUME PhaseInv
  PROVE  /\ trigger \in {"receive", "soft_reset"} => isr /\ reader # "none"
         /\ isr => trigger \in {"receive", "soft_reset"} /\ reader # "none"
         /\ trigger = "create" => Spawning
         /\ trigger = "none" \/ Spawning => reader = "none" /\ ~isr
BY Zenon DEF PhaseInv, Starting, Measuring, Spawning, Running, Stopped

(* Nothing is under way when all has settled.                              *)
LEMMA SettledPipe ==
  ASSUME TypeOK, PhaseInv, FifoInv, "i2c" \notin Faults, Settled, trigger # "none"
  PROVE  OnlyGoodCrc /\ isr /\ reader = "wait" /\ trigger = "receive" /\ message_queue_ = <<>>
<1>1. isr /\ reader = "wait" /\ trigger = "receive"
  BY TasksExist, Zenon DEF Settled
<1>. QED
  BY <1>1, QuietPipe, Zenon DEF Settled

(* The main loop sends the soft reset.                                     *)
LEMMA SoftResetSent ==
  ASSUME TypeOK, SoftResetInv, "i2c" \notin Faults, LoopSend
  PROVE  \E x \in SinkMessages : /\ x.type = "SOFT_RESET" /\ x.id = NextId
                                 /\ tx_fifo' = Append(tx_fifo, x)
<1>1. get_src_cap_retry_count_ = 2
  BY Zenon DEF SoftResetInv, LoopSend
<1>2. ~(get_src_cap_retry_count_ < 2)
  BY <1>1, SMTT(30)
<1>3. tx_fifo' = Append(tx_fifo, CntrlMsg("SOFT_RESET", NextId))
  BY <1>2, Zenon DEF LoopSend, send_message
<1>4. NextId \in 0..7 /\ "SOFT_RESET" \in MsgTypes
  <2>1. PdTypeOK
    BY Zenon DEF TypeOK
  <2>. QED
    BY <2>1, NextIdType, Zenon DEF MsgTypes
<1>5. CntrlMsg("SOFT_RESET", NextId) \in SinkMessages
  BY <1>4, MessageTypes, Zenon
<1>6. CntrlMsg("SOFT_RESET", NextId).type = "SOFT_RESET" /\ CntrlMsg("SOFT_RESET", NextId).id = NextId
  BY Zenon DEF CntrlMsg, Msg
<1>. QED
  BY <1>3, <1>5, <1>6, Zenon

(* There is one exchange at a time, and the source gets a REQUEST only     *)
(* when it waits for one.                                                  *)
LEMMA ExchangeStep ==
  ASSUME Orderly, TypeOK, TypeOK', PhaseInv, FifoInv, SoftResetInv, DueInv, AttachInv,
         ExchangeInv, [Next]_vars
  PROVE  ExchangeInv'
<1>. USE DEF Orderly
<1>0. RequestsAwaited /\ RequestOnlyWhenAsked
  BY Zenon DEF ExchangeInv
<1>1. CASE Aside
  BY <1>1, AsideKeeps, ExchangeKept, Zenon
<1>2. CASE Setup \/ LoopSpawn \/ Reboot
  <2>1. ~Exchanging'
    BY <1>2, Zenon DEF Setup, LoopSpawn, Reboot, Exchanging, taskVars, PhaseInv, Starting,
       Measuring, Spawning, Running, Stopped, LaterPcs
  <2>2. src' = src /\ tx_fifo' \in {tx_fifo, <<>>}
    BY <1>2, Zenon DEF Setup, LoopSpawn, Reboot
  <2>3. RequestsAwaited'
    <3>1. CASE tx_fifo' = tx_fifo
      BY <1>0, <2>2, <3>1, Zenon DEF RequestsAwaited
    <3>2. CASE tx_fifo' = <<>>
      BY <3>2, SMTT(30) DEF RequestsAwaited
    <3>. QED
      BY <2>2, <3>1, <3>2, Zenon
  <2>. QED
    BY <1>0, <2>1, <2>2, <2>3, NoExchange, Zenon DEF RequestOnlyWhenAsked
<1>3. CASE LoopDetachReset
  <2>1. ~src.plugged /\ src' = src
    BY <1>3, Zenon DEF LoopDetachReset, AttachInv
  <2>. QED
    BY <1>0, <2>1, NoExchange, Zenon DEF Exchanging, RequestsAwaited, RequestOnlyWhenAsked
<1>4. CASE LoopReattachReset
  <2>1. fusb_reset_ /\ UNCHANGED <<message_queue_, Held, src, trigger>> /\ pc = "reattach_reset"
    BY <1>4, Zenon DEF LoopReattachReset, taskVars, Held
  <2>2. Exchanging => "dup" \notin Faults
    BY <2>1, TasksExist, Zenon DEF Exchanging, AttachInv, FirstAttach
  <2>. QED
    BY <2>1, <2>2, ExchangeReset, Zenon
<1>5. CASE LoopSoftReset
  <2>1. fusb_reset_ /\ UNCHANGED <<message_queue_, Held, src, trigger>> /\ pc = "soft_reset"
    BY <1>5, Zenon DEF LoopSoftReset, taskVars, Held
  <2>2. Exchanging => OnlyGoodCrc
    BY <2>1, Zenon DEF Exchanging, DueInv, SendDue, DuePcs
  <2>. QED
    BY <2>1, <2>2, ExchangeReset, Zenon
<1>6. CASE ReaderReset
  <2>1. fusb_reset_ /\ UNCHANGED <<message_queue_, Held, src, trigger>> /\ reader = "reset"
    BY <1>6, Zenon DEF ReaderReset, Held
  <2>2. message_queue_ = <<>> /\ Held = <<>>
    BY <2>1, Zenon DEF AttachInv, Held
  <2>. QED
    BY <2>1, <2>2, ExchangeReset, Zenon
<1>7. CASE LoopSend
  <2>1. PICK x \in SinkMessages : x.type = "SOFT_RESET" /\ tx_fifo' = Append(tx_fifo, x)
    BY <1>7, SoftResetSent, Zenon
  <2>2. UNCHANGED <<src, trigger, message_queue_, Held, rx_fifo>> /\ pc = "send"
    BY <1>7, Zenon DEF LoopSend, taskVars, chipVars, Held
  <2>3. RequestsAwaited'
    <3>1. /\ Len(tx_fifo) \in Nat /\ Len(tx_fifo') = Len(tx_fifo) + 1
          /\ tx_fifo'[Len(tx_fifo) + 1] = x
          /\ \A i \in 1..Len(tx_fifo) : tx_fifo'[i] = tx_fifo[i]
      BY <2>1, TxShape, Zenon
    <3>2. \A i \in 1..Len(tx_fifo') : i = Len(tx_fifo) + 1 \/ i \in 1..Len(tx_fifo)
      BY <3>1, SMTT(30)
    <3>. QED
      BY <1>0, <2>1, <2>2, <3>1, <3>2, Zenon DEF RequestsAwaited
  <2>4. RequestOnlyWhenAsked'
    BY <1>0, <2>2, Zenon DEF RequestOnlyWhenAsked
  <2>5. CASE ~Exchanging
    BY <2>2, <2>3, <2>4, <2>5, NoExchange, Zenon DEF Exchanging
  <2>6. CASE Exchanging
    <3>1. /\ tx_fifo = <<>> /\ SourceQuiet /\ reader = "wait" /\ message_queue_ = <<>>
          /\ rx_fifo = <<>>
      BY <2>2, <2>6, Zenon DEF Exchanging, DueInv, SendDue, DuePcs
    <3>2. tx_fifo' = <<x>>
      BY <2>1, <3>1, TxShape, Zenon
    <3>3. Len(tx_fifo') = 1
      BY <3>2, SMTT(30)
    <3>4. Pipe' = Pipe /\ Held = <<>>
      BY <2>2, <3>1, Zenon DEF Pipe, Held
    <3>5. Len(Pipe) = 0
      BY <3>1, <3>4, PipeElement, SMTT(30)
    <3>6. Len(Pipe') <= 1 /\ \A i \in 1..Len(Pipe') : FALSE
      BY <3>4, <3>5, SMTT(30)
    <3>7. QuestionsOpen' /\ OneAtATime'
      BY <2>2, <3>1, <3>3, <3>6, Zenon DEF QuestionsOpen, OneAtATime, SourceQuiet
    <3>. QED
      BY <2>3, <2>4, <3>7, Zenon DEF ExchangeInv
  <2>. QED
    BY <2>5, <2>6, Zenon
<1>8. CASE TriggerCreate
  <2>1. UNCHANGED <<src, tx_fifo, message_queue_, rx_fifo>> /\ trigger = "create"
    BY <1>8, Zenon DEF TriggerCreate, pdVars, chipVars
  <2>2. Spawning /\ reader = "none" /\ reader' # "enqueue"
    BY <1>8, <2>1, TasksExist, Zenon DEF TriggerCreate
  <2>3. tx_fifo' = <<>> /\ message_queue_ = <<>> /\ Pipe' = Pipe
    BY <2>1, <2>2, Zenon DEF AttachInv, Pipe, Held
  <2>4. OnlyGoodCrc
    BY <2>2, <2>3, QuietPipe, Zenon
  <2>5. QuestionsOpen' /\ OneAtATime'
    BY <2>3, <2>4, Zenon DEF QuestionsOpen, OneAtATime, OnlyGoodCrc, Unanswered
  <2>. QED
    BY <1>0, <2>1, <2>5, Zenon DEF ExchangeInv, RequestsAwaited, RequestOnlyWhenAsked
<1>9. CASE TriggerReceive
  BY <1>9, ExchangeHandled, Zenon
<1>10. CASE TriggerSoftReset
  <2>1. /\ UNCHANGED <<src, tx_fifo, message_queue_, rx_fifo, Held, Pipe, last_received_msg_id_>>
        /\ trigger = "soft_reset" /\ trigger' = "receive"
    BY <1>10, Zenon DEF TriggerSoftReset, handle_soft_reset_rest, chipVars, Held, Pipe
  <2>. QED
    BY <2>1, Zenon DEF ExchangeInv, QuestionsOpen, OneAtATime, RequestsAwaited,
       RequestOnlyWhenAsked, Exchanging, Spent, Pending, Waits, SourceQuiet
<1>11. CASE ReaderDrain
  <2>1. UNCHANGED <<src, tx_fifo, trigger, idVars>>
    BY <1>11, Zenon DEF ReaderDrain, pdVars
  <2>2. Pipe' = Pipe
    BY <1>11, PipeFetched, Zenon
  <2>. QED
    BY <2>1, <2>2, Zenon DEF ExchangeInv, QuestionsOpen, OneAtATime, RequestsAwaited,
       RequestOnlyWhenAsked, Exchanging, Spent, Pending, Waits, SourceQuiet, idVars
<1>12. CASE ReaderEnqueue
  BY <1>12, ExchangeQueued, Zenon
<1>13. CASE Plug
  <2>1. /\ Settled /\ src' \in Sources
        /\ UNCHANGED <<tx_fifo, trigger, message_queue_, Held, rx_fifo, Pipe>>
    BY <1>13, Zenon DEF Plug, pdVars, taskVars, Held, Pipe
  <2>2. tx_fifo' = <<>> /\ (trigger # "none" => OnlyGoodCrc)
    BY <2>1, SettledPipe, Zenon DEF Settled
  <2>3. QuestionsOpen' /\ OneAtATime'
    BY <2>1, <2>2, Zenon DEF QuestionsOpen, OneAtATime, OnlyGoodCrc, Unanswered, Exchanging
  <2>4. RequestsAwaited'
    BY <2>2, SMTT(30) DEF RequestsAwaited
  <2>5. RequestOnlyWhenAsked'
    <3>1. PICK caps \in SourceCaps, cc \in CcLines : src' = PluggedSource(caps, cc)
      BY <2>1, SMTT(30) DEF Sources
    <3>2. ~src'.surprised
      BY <3>1, Zenon DEF PluggedSource, NoSource
    <3>. QED
      BY <3>2, Zenon DEF RequestOnlyWhenAsked
  <2>. QED
    BY <2>3, <2>4, <2>5, Zenon DEF ExchangeInv
<1>14. CASE Unplug
  <2>1. ~src'.plugged /\ ~src'.surprised
    BY <1>14, Zenon DEF Unplug, NoSource
  <2>. QED
    BY <2>1, NoExchange, Zenon DEF Exchanging, RequestsAwaited, RequestOnlyWhenAsked
<1>15. CASE TxLost
  <2>1. /\ tx_fifo # <<>> /\ tx_fifo' = Tail(tx_fifo)
        /\ UNCHANGED <<src, trigger, Pipe, idVars>>
    BY <1>15, Zenon DEF TxLost, taskVars, chipVars, Pipe, Held
  <2>2. RequestsAwaited' /\ RequestOnlyWhenAsked'
    BY <1>0, <2>1, RequestLeaves, Zenon DEF RequestsAwaited, RequestOnlyWhenAsked
  <2>3. CASE ~Exchanging
    BY <2>1, <2>2, <2>3, NoExchange, Zenon DEF Exchanging
  <2>4. CASE Exchanging
    <3>1. tx_fifo' = <<>>
      BY <2>1, <2>4, TxShape, Zenon DEF ExchangeInv, OneAtATime
    <3>2. QuestionsOpen'
      BY <2>1, <2>4, Zenon DEF ExchangeInv, QuestionsOpen, Pending, Spent, idVars
    <3>. QED
      BY <2>2, <3>1, <3>2, Zenon DEF ExchangeInv, OneAtATime
  <2>. QED
    BY <2>3, <2>4, Zenon
<1>16. CASE SourceStep \/ SourceExtra
  <2>1. UNCHANGED <<message_queue_, Held, tx_fifo, trigger, idVars>>
    BY <1>16, SourceRaisesIrq, Zenon DEF taskVars, pdVars, Held
  <2>2. /\ \E m \in Messages : Emits(m)
        /\ SourceQuiet => Settled
    BY <1>16, SourceStepEmits, SourceExtraEmits, Zenon
  <2>3. SourceQuiet /\ Exchanging => OnlyGoodCrc
    BY <2>2, SettledPipe, Zenon DEF Exchanging
  <2>. QED
    BY <2>1, <2>2, <2>3, ExchangeEmitted, Zenon
<1>17. CASE SourceReceives
  BY <1>17, ExchangeHeard, Zenon
<1>. QED
  BY <1>1, <1>2, <1>3, <1>4, <1>5, <1>6, <1>7, <1>8, <1>9, <1>10, <1>11, <1>12, <1>13, <1>14,
     <1>15, <1>16, <1>17, StepKinds, Zenon

-----------------------------------------------------------------------------
(* The soft reset of check_status_ is due only when nothing is under way.  *)
DueClear == pc \in DuePcs => "cap" \notin expired

DueQuiet ==
  /\ tx_fifo = <<>> /\ OnlyGoodCrc /\ SourceQuiet
  /\ trigger = "receive" /\ reader \notin {"none", "crc", "reset"}
  /\ src.plugged =>
       /\ reader = "wait" /\ ~notified /\ irq = {} /\ message_queue_ = <<>>
       /\ pc = "send" => rx_fifo = <<>> /\ last_received_msg_id_ = NO_MSG_ID

(* The two parts of DueInv.                                                *)
LEMMA DueParts ==
  /\ DueInv <=> (SendDue => DueQuiet) /\ DueClear
  /\ DueInv' <=> (SendDue' => DueQuiet') /\ DueClear'
<1>1. DueInv <=> (SendDue => DueQuiet) /\ DueClear
  BY Zenon DEF DueInv, DueQuiet, DueClear
<1>2. DueInv' <=> (SendDue' => DueQuiet') /\ DueClear'
  BY Zenon DEF DueInv, DueQuiet, DueClear
<1>. QED
  BY <1>1, <1>2, Zenon

(* What it depends on.                                                     *)
LEMMA DueSame ==
  ASSUME UNCHANGED <<trigger, pc, capVars, expired>>
  PROVE  (SendDue' <=> SendDue) /\ (DueClear' <=> DueClear)
BY Zenon DEF SendDue, CapExpired, Armed, DueClear, capVars

(* A step of the main loop that moves no message does not make it due, but *)
(* for check_status_ that notices it.                                      *)
LEMMA DueAside ==
  ASSUME TypeOK, DueInv, LoopAside
  PROVE  /\ SendDue' => SendDue
         /\ pc' = "send" => pc = "send"
         /\ DueClear'
<1>. USE DEF SendDue, CapExpired, Armed, DueClear, DuePcs, capVars, pdVars, taskVars
<1>0. get_src_cap_retry_count_ \in Nat
  BY Zenon DEF TypeOK, PdTypeOK
<1>1. CASE RunDeferred
  BY <1>1, Zenon DEF RunDeferred
<1>2. CASE RequestVoltage
  <2>1. get_src_cap_retry_count_' = 0 /\ pc' = "idle"
    BY <1>2, Zenon DEF RequestVoltage, request_voltage
  <2>2. ~Armed("cap")'
    BY <2>1, SMTT(30)
  <2>. QED
    BY <2>1, <2>2, Zenon
<1>3. CASE LoopStart
  <2>1. /\ UNCHANGED <<trigger, get_src_cap_retry_count_, expired>>
        /\ pc' \in {"detach_reset", "status"} /\ (wait_src_cap_' => wait_src_cap_)
    BY <1>3, Zenon DEF LoopStart
  <2>. QED
    BY <2>1, Zenon
<1>4. CASE LoopDetachState
  BY <1>4, Zenon DEF LoopDetachState
<1>5. CASE LoopCcIdle
  BY <1>5, Zenon DEF LoopCcIdle
<1>6. CASE LoopCcSettle1
  BY <1>6, Zenon DEF LoopCcSettle1
<1>7. CASE LoopCcSettle2
  BY <1>7, Zenon DEF LoopCcSettle2
<1>8. CASE LoopReattachCrc
  BY <1>8, Zenon DEF LoopReattachCrc
<1>9. CASE LoopArm
  <2>1. get_src_cap_retry_count_' = 0 /\ pc' = "timer"
    BY <1>9, Zenon DEF LoopArm
  <2>2. ~Armed("cap")'
    BY <2>1, SMTT(30)
  <2>. QED
    BY <2>1, <2>2, Zenon
<1>10. CASE LoopAttached
  <2>1. UNCHANGED <<trigger, wait_src_cap_>>
    BY <1>10, Zenon DEF LoopAttached
  <2>2. CASE /\ CapDue /\ get_src_cap_retry_count_ # 0
             /\ get_src_cap_retry_count_' = get_src_cap_retry_count_ + 1
             /\ expired' = expired \ {"cap"}
             /\ pc' = IF get_src_cap_retry_count_' < 2 THEN "send"
                      ELSE IF ~tried_soft_reset_ THEN "soft_reset" ELSE "pd_timeout"
    <3>1. get_src_cap_retry_count_ > 0 /\ ~(get_src_cap_retry_count_' < 2)
      BY <1>0, <2>2, SMTT(30)
    <3>2. pc' # "send" /\ "cap" \notin expired'
      BY <2>2, <3>1, Zenon
    <3>3. CapExpired
      BY <2>2, <3>1, Zenon DEF CapDue
    <3>. QED
      BY <2>1, <3>2, <3>3, Zenon
  <2>3. CASE pc' = "timer" /\ expired' = expired \ {"cap"}
    BY <2>3, Zenon
  <2>4. CASE pc' = "timer" /\ UNCHANGED <<get_src_cap_retry_count_, expired>>
    BY <2>1, <2>4, Zenon
  <2>5. CASE ~AmsBusy /\ CapDue
    BY <1>10, <2>2, <2>3, <2>5, Zenon DEF LoopAttached
  <2>6. CASE ~(~AmsBusy /\ CapDue)
    BY <1>10, <2>4, <2>6, Zenon DEF LoopAttached
  <2>. QED
    BY <2>5, <2>6, Zenon
<1>11. CASE LoopPdTimeout
  BY <1>11, Zenon DEF LoopPdTimeout
<1>12. CASE LoopTimer
  <2>1. UNCHANGED <<trigger, wait_src_cap_, get_src_cap_retry_count_>> /\ pc' = "idle"
    BY <1>12, Zenon DEF LoopTimer
  <2>2. expired' \subseteq expired
    BY <1>12, Zenon DEF LoopTimer
  <2>. QED
    BY <2>1, <2>2, Zenon
<1>. HIDE DEF SendDue, CapExpired, Armed, DueClear, DuePcs, capVars, pdVars, taskVars
<1>. QED
  BY <1>1, <1>2, <1>3, <1>4, <1>5, <1>6, <1>7, <1>8, <1>9, <1>10, <1>11, <1>12, Zenon
  DEF LoopAside

(* It holds in every step.                                                 *)
LEMMA DueStep ==
  ASSUME Orderly, TypeOK, TypeOK', PhaseInv, FifoInv, AttachInv, DueInv, [Next]_vars
  PROVE  DueInv'
<1>. USE DEF Orderly
<1>a. (SendDue => DueQuiet) /\ DueClear
  BY DueParts, Zenon
<1>. SUFFICES (SendDue' => DueQuiet') /\ DueClear'
  BY DueParts, Zenon
<1>same. /\ UNCHANGED <<trigger, pc, capVars, expired>> => (SendDue' <=> SendDue) /\ DueClear'
  BY <1>a, DueSame, Zenon
<1>settled. Settled => ~SendDue
  BY Zenon DEF Settled, LoopAtRest, SendDue, CapExpired, DuePcs
<1>cut. ASSUME rx_fifo' = <<>>, message_queue_' = message_queue_, Held' = Held, OnlyGoodCrc
        PROVE  OnlyGoodCrc'
  <2>1. Len(Pipe') <= Len(Pipe) /\ Len(Pipe) \in Nat /\ Len(Pipe') \in Nat
    BY <1>cut, PipeCut, PipeElement, SMTT(30)
  <2>2. \A i \in 1..Len(Pipe') : i \in 1..Len(Pipe)
    BY <2>1, SMTT(30)
  <2>. QED
    BY <1>cut, <2>2, PipeCut, Zenon DEF OnlyGoodCrc
<1>1. CASE LoopAside
  <2>1. UNCHANGED <<flowVars, reader, irq, notified>>
    BY <1>1, LoopAsideKeeps, Zenon
  <2>2. /\ SendDue' => SendDue
        /\ pc' = "send" => pc = "send"
        /\ DueClear'
    BY <1>1, DueAside, Zenon
  <2>. QED
    BY <1>a, <2>1, <2>2, Zenon DEF DueQuiet, flowVars, OnlyGoodCrc, SourceQuiet, idVars
<1>2. CASE ReaderAside
  <2>1. UNCHANGED flowVars
    BY <1>2, AsideKeeps, Zenon DEF Aside
  <2>2. /\ UNCHANGED <<trigger, pc, capVars, expired>>
        /\ reader' \notin {"none", "crc"} /\ (reader' = "reset" => reader = "crc")
        /\ reader = "wait" => notified
    BY <1>2, Zenon DEF ReaderAside, ReaderCrc, ReaderWake, ReaderStatus, pdVars, capVars
  <2>. QED
    BY <1>a, <1>same, <2>1, <2>2, Zenon DEF DueQuiet, flowVars, OnlyGoodCrc, SourceQuiet, idVars
<1>3. CASE Elapse
  <2>1. UNCHANGED flowVars
    BY <1>3, AsideKeeps, Zenon DEF Aside
  <2>2. Settled /\ SourceQuiet /\ UNCHANGED <<pc, reader, notified, irq>>
    BY <1>3, Zenon DEF Elapse, taskVars, chipVars
  <2>3. pc' \notin DuePcs
    BY <2>2, Zenon DEF Settled, LoopAtRest, DuePcs
  <2>4. trigger # "none" => OnlyGoodCrc /\ reader = "wait" /\ trigger = "receive"
    BY <2>2, SettledPipe, Zenon
  <2>. QED
    BY <2>1, <2>2, <2>3, <2>4, Zenon DEF DueQuiet, DueClear, DuePcs, SendDue, Settled, flowVars,
       OnlyGoodCrc, SourceQuiet, idVars
<1>4. CASE UNCHANGED vars
  <2>1. UNCHANGED flowVars
    BY <1>4, AsideKeeps, Zenon DEF Aside
  <2>2. UNCHANGED <<trigger, pc, capVars, expired, reader, notified, irq>>
    BY <1>4, Zenon DEF vars, pdVars, taskVars, chipVars
  <2>. QED
    BY <1>a, <1>same, <2>1, <2>2, Zenon DEF DueQuiet, flowVars, OnlyGoodCrc, SourceQuiet, idVars
<1>5. CASE Setup \/ Reboot
  <2>1. trigger' = "none" /\ pc' \notin DuePcs
    BY <1>5, Zenon DEF Setup, Reboot, taskVars, DuePcs, PhaseInv, Starting, Measuring, Spawning,
       Running, Stopped, LaterPcs
  <2>. QED
    BY <2>1, Zenon DEF SendDue, DueClear
<1>6. CASE LoopDetachReset \/ LoopReattachReset
  <2>1. /\ UNCHANGED <<trigger, capVars, expired, src, message_queue_, Held, reader, notified, irq>>
        /\ pc' \in {"detach_state", "arm"} /\ fusb_reset_
    BY <1>6, Zenon DEF LoopDetachReset, LoopReattachReset, taskVars, Held
  <2>2. (SendDue' => SendDue) /\ DueClear' /\ rx_fifo' = <<>> /\ tx_fifo' = <<>>
    BY <2>1, Zenon DEF SendDue, DueClear, DuePcs, CapExpired, Armed, capVars, fusb_reset_
  <2>. QED
    BY <1>a, <1>cut, <2>1, <2>2, Zenon DEF DueQuiet, SourceQuiet
<1>7. CASE LoopSoftReset
  <2>1. /\ UNCHANGED <<trigger, capVars, expired, src, message_queue_, Held, reader, notified, irq>>
        /\ pc = "soft_reset" /\ pc' = "send" /\ fusb_reset_
    BY <1>7, Zenon DEF LoopSoftReset, taskVars, Held
  <2>2. /\ SendDue' => SendDue
        /\ rx_fifo' = <<>> /\ tx_fifo' = <<>> /\ last_received_msg_id_' = NO_MSG_ID
    BY <2>1, Zenon DEF SendDue, DuePcs, fusb_reset_
  <2>3. DueClear'
    BY <1>a, <2>1, Zenon DEF DueClear, DuePcs
  <2>. QED
    BY <1>a, <1>cut, <2>1, <2>2, <2>3, Zenon DEF DueQuiet, SourceQuiet
<1>8. CASE LoopSpawn
  <2>1. pc = "spawn" /\ UNCHANGED <<capVars, expired>> /\ pc' \in {"arm", "timer"}
    BY <1>8, Zenon DEF LoopSpawn
  <2>2. Measuring
    BY <2>1, Zenon DEF PhaseInv, Starting, Measuring, Spawning, Running, Stopped, LaterPcs
  <2>3. get_src_cap_retry_count_' = 0
    BY <2>1, <2>2, Zenon DEF AttachInv, capVars
  <2>4. ~Armed("cap")'
    BY <2>3, SMTT(30) DEF Armed
  <2>. QED
    BY <2>1, <2>4, Zenon DEF SendDue, CapExpired, DueClear, DuePcs
<1>9. CASE LoopSend
  <2>1. pc = "send" /\ pc' = "timer" /\ UNCHANGED expired
    BY <1>9, Zenon DEF LoopSend
  <2>2. "cap" \notin expired
    BY <1>a, <2>1, Zenon DEF DueClear, DuePcs
  <2>. QED
    BY <2>1, <2>2, Zenon DEF SendDue, CapExpired, DueClear, DuePcs
<1>10. CASE TriggerCreate
  <2>1. trigger = "create" /\ UNCHANGED <<pc, capVars, expired>>
    BY <1>10, Zenon DEF TriggerCreate, pdVars
  <2>2. ~SendDue
    BY <1>a, <2>1, Zenon DEF DueQuiet
  <2>. QED
    BY <1>a, <2>1, <2>2, Zenon DEF SendDue, CapExpired, Armed, DueClear, capVars
<1>11. CASE TriggerReceive
  <2>. DEFINE m == Pipe[1]
  <2>0. /\ m \in Messages /\ m = Head(message_queue_)
        /\ Len(Pipe) \in Nat /\ Len(Pipe) >= 1 /\ Len(Pipe') = Len(Pipe) - 1
        /\ \A i \in 1..Len(Pipe') : Pipe'[i] = Pipe[i + 1]
    BY <1>11, PipeTaken, PipeElement, SMTT(30)
  <2>1. /\ Handles(m) /\ UNCHANGED <<src, pc, reader>> /\ message_queue_ # <<>>
        /\ trigger = "receive" /\ trigger' = IF StartsSoftReset(m) THEN "soft_reset" ELSE "receive"
    BY <1>11, <2>0, MessageHandled, Zenon DEF TriggerReceive
  <2>. HIDE DEF m
  <2>2. /\ expired' \subseteq expired /\ get_src_cap_retry_count_' = get_src_cap_retry_count_
        /\ wait_src_cap_' = wait_src_cap_ \/ wait_src_cap_' = FALSE
    BY <1>11, <2>1, HandlersEndTheWait, Zenon DEF Handles
  <2>3. (SendDue' => SendDue) /\ DueClear'
    <3>1. /\ expired' \subseteq expired /\ pc' = pc /\ trigger # "none"
          /\ get_src_cap_retry_count_' = get_src_cap_retry_count_
      BY <2>1, <2>2, Zenon
    <3>2. wait_src_cap_' => wait_src_cap_
      <4>1. CASE wait_src_cap_' = wait_src_cap_
        BY <4>1, Zenon
      <4>2. CASE wait_src_cap_' = FALSE
        BY <4>2, Zenon
      <4>. QED
        BY <2>2, <4>1, <4>2, Zenon
    <3>. QED
      BY <1>a, <3>1, <3>2, Zenon DEF SendDue, CapExpired, Armed, DueClear
  <2>4. ASSUME SendDue
        PROVE  DueQuiet'
    <3>1. OnlyGoodCrc /\ 1 \in 1..Len(Pipe) /\ DueQuiet
      BY <1>a, <2>0, <2>4, SMTT(30) DEF DueQuiet
    <3>2. m.type = "GOODCRC"
      BY <3>1, Zenon DEF OnlyGoodCrc, m
    <3>3. tx_fifo' = tx_fifo /\ trigger' = "receive"
      BY <2>1, <3>2, Zenon DEF Handles, Unanswered, StartsSoftReset
    <3>4. \A i \in 1..Len(Pipe') : i + 1 \in 1..Len(Pipe)
      BY <2>0, SMTT(30)
    <3>5. OnlyGoodCrc'
      BY <2>0, <3>1, <3>4, Zenon DEF OnlyGoodCrc
    <3>6. tx_fifo = <<>> /\ ~src.plugged /\ SourceQuiet /\ reader \notin {"none", "crc", "reset"}
      BY <2>1, <3>1, Zenon DEF DueQuiet
    <3>. QED
      BY <2>1, <3>3, <3>5, <3>6, Zenon DEF DueQuiet, SourceQuiet
  <2>. QED
    BY <2>3, <2>4, Zenon
<1>12. CASE TriggerSoftReset
  <2>1. /\ trigger = "soft_reset" /\ UNCHANGED <<pc, capVars, expired>>
    BY <1>12, Zenon DEF TriggerSoftReset, handle_soft_reset_rest
  <2>2. ~SendDue
    BY <1>a, <2>1, Zenon DEF DueQuiet
  <2>. QED
    BY <1>a, <2>1, <2>2, Zenon DEF SendDue, CapExpired, Armed, DueClear, capVars
<1>13. CASE ReaderReset
  <2>1. reader = "reset" /\ UNCHANGED <<trigger, pc, capVars, expired>>
    BY <1>13, Zenon DEF ReaderReset
  <2>. QED
    BY <1>a, <1>same, <2>1, Zenon DEF DueQuiet
<1>14. CASE ReaderDrain \/ ReaderEnqueue
  <2>1. /\ UNCHANGED <<trigger, pc, capVars, expired, tx_fifo, src>>
        /\ reader # "wait" /\ reader' \notin {"none", "crc", "reset"}
    BY <1>14, Zenon DEF ReaderDrain, ReaderEnqueue, pdVars
  <2>2. ASSUME OnlyGoodCrc
        PROVE  OnlyGoodCrc'
    <3>1. CASE Pipe' = Pipe
      BY <2>2, <3>1, Zenon DEF OnlyGoodCrc
    <3>2. CASE /\ Len(Pipe') = Len(Pipe) - 1
               /\ \A i \in 1..Len(Pipe') :
                    Pipe'[i] = IF i <= Len(message_queue_) THEN Pipe[i] ELSE Pipe[i + 1]
      <4>1. Len(Pipe) \in Nat
        BY PipeElement, SMTT(30)
      <4>2. \A i \in 1..Len(Pipe') : i \in 1..Len(Pipe) /\ i + 1 \in 1..Len(Pipe)
        BY <3>2, <4>1, SMTT(30)
      <4>. QED
        BY <2>2, <3>2, <4>2, Zenon DEF OnlyGoodCrc
    <3>. QED
      BY <1>14, <3>1, <3>2, PipeFetched, PipeQueued, Zenon
  <2>. QED
    BY <1>a, <1>same, <2>1, <2>2, Zenon DEF DueQuiet, SourceQuiet
<1>15. CASE Plug \/ SourceExtra
  <2>1. Settled /\ UNCHANGED <<trigger, pc, capVars, expired>>
    <3>1. CASE Plug
      BY <3>1, Zenon DEF Plug, pdVars, taskVars
    <3>2. CASE SourceExtra
      BY <3>2, SourceExtraEmits, SourceRaisesIrq, Zenon DEF pdVars, taskVars
    <3>. QED
      BY <1>15, <3>1, <3>2, Zenon
  <2>. QED
    BY <1>same, <1>settled, <2>1, Zenon
<1>16. CASE Unplug
  <2>1. /\ UNCHANGED <<trigger, pc, capVars, expired, Pipe, reader>>
        /\ tx_fifo' = <<>> /\ src' = NoSource
    BY <1>16, Zenon DEF Unplug, taskVars, Pipe, Held
  <2>2. ~src'.plugged /\ SourceQuiet'
    BY <2>1, Zenon DEF NoSource, SourceQuiet
  <2>. QED
    BY <1>a, <1>same, <2>1, <2>2, Zenon DEF DueQuiet, OnlyGoodCrc
<1>17. CASE TxLost \/ SourceReceives
  <2>1. tx_fifo # <<>> /\ UNCHANGED <<trigger, pc, capVars, expired>>
    BY <1>17, Zenon DEF TxLost, SourceReceives, taskVars
  <2>. QED
    BY <1>a, <1>same, <2>1, Zenon DEF DueQuiet
<1>18. CASE SourceStep
  <2>1. ~SourceQuiet /\ UNCHANGED <<trigger, pc, capVars, expired>>
    BY <1>18, SourceStepEmits, SourceRaisesIrq, Zenon DEF pdVars, taskVars
  <2>. QED
    BY <1>a, <1>same, <2>1, Zenon DEF DueQuiet
<1>. QED
  BY <1>1, <1>2, <1>3, <1>4, <1>5, <1>6, <1>7, <1>8, <1>9, <1>10, <1>11, <1>12, <1>13, <1>14,
     <1>15, <1>16, <1>17, <1>18, StepKinds, Zenon DEF Aside

-----------------------------------------------------------------------------
(* Where the main loop and the tasks are when the cable moves.             *)

(* The bounds of the environment are used up one by one.                   *)
LEMMA BudgetSteps ==
  ASSUME TypeOK, [Next]_vars
  PROVE  /\ budget'.plug = budget.plug \/ (Plug /\ budget.plug > 0)
         /\ \/ budget'.reboot = budget.reboot
            \/ Reboot /\ budget.reboot > 0 /\ budget'.reboot = budget.reboot - 1
         /\ budget'.request = budget.request \/ (RequestVoltage /\ budget.request > 0)
<1>0. budget \in [plug : Nat, reboot : Nat, extra : Nat, request : Nat]
  BY Zenon DEF TypeOK, WorldTypeOK
<1>1. CASE UNCHANGED budget
  BY <1>1, Zenon
<1>2. CASE Plug
  <2>1. budget.plug > 0 /\ budget' = [budget EXCEPT !.plug = @ - 1]
    BY <1>2, Zenon DEF Plug
  <2>. QED
    BY <1>0, <1>2, <2>1, Zenon
<1>3. CASE RequestVoltage
  <2>1. budget.request > 0 /\ budget' = [budget EXCEPT !.request = @ - 1]
    BY <1>3, Zenon DEF RequestVoltage
  <2>. QED
    BY <1>0, <1>3, <2>1, Zenon
<1>4. CASE SourceExtra
  <2>1. budget' = [budget EXCEPT !.extra = @ - 1]
    BY <1>4, Zenon DEF SourceExtra
  <2>. QED
    BY <1>0, <2>1, Zenon
<1>5. CASE Reboot
  <2>1. budget.reboot > 0 /\ budget' = [budget EXCEPT !.reboot = @ - 1]
    BY <1>5, Zenon DEF Reboot
  <2>. QED
    BY <1>0, <1>5, <2>1, Zenon
<1>6. CASE LoopAside /\ ~RequestVoltage
  BY <1>1, <1>6, Zenon DEF LoopAside, RunDeferred, LoopStart, LoopDetachState, LoopCcIdle,
     LoopCcSettle1, LoopCcSettle2, LoopReattachCrc, LoopArm, LoopAttached, LoopPdTimeout, LoopTimer
<1>7. CASE ReaderAside \/ Elapse \/ UNCHANGED vars
  BY <1>1, <1>7, Zenon DEF ReaderAside, ReaderCrc, ReaderWake, ReaderStatus, Elapse, vars
<1>8. CASE Setup \/ LoopDetachReset \/ LoopReattachReset \/ LoopSoftReset \/ LoopSpawn \/ LoopSend
           \/ TriggerCreate \/ TriggerReceive \/ TriggerSoftReset
  BY <1>1, <1>8, Zenon DEF Setup, LoopDetachReset, LoopReattachReset, LoopSoftReset, LoopSpawn,
     LoopSend, TriggerCreate, TriggerReceive, TriggerSoftReset
<1>9. CASE ReaderReset \/ ReaderDrain \/ ReaderEnqueue \/ Unplug \/ TxLost \/ SourceStep
           \/ SourceReceives
  BY <1>1, <1>9, Zenon DEF ReaderReset, ReaderDrain, ReaderEnqueue, Unplug, TxLost, SourceStep,
     SourceReceives
<1>. QED
  BY <1>2, <1>3, <1>4, <1>5, <1>6, <1>7, <1>8, <1>9, StepKinds, Zenon DEF Aside

(* A restart is not undone.                                                *)
LEMMA RebootsCounted ==
  ASSUME TypeOK, budget.reboot <= MaxReboots, [Next]_vars
  PROVE  budget'.reboot <= MaxReboots /\ (NotRestarted' => NotRestarted /\ ~Reboot)
<1>1. MaxReboots \in Nat /\ budget.reboot \in Nat
  BY BoundsAssumption, Zenon DEF TypeOK, WorldTypeOK
<1>2. CASE budget'.reboot = budget.reboot
  <2>1. ~Reboot
    <3>1. Reboot => budget' = [budget EXCEPT !.reboot = @ - 1]
      BY Zenon DEF Reboot
    <3>2. budget \in [plug : Nat, reboot : Nat, extra : Nat, request : Nat]
      BY Zenon DEF TypeOK, WorldTypeOK
    <3>3. Reboot => budget'.reboot = budget.reboot - 1
      BY <3>1, <3>2, Zenon
    <3>. QED
      BY <1>1, <1>2, <3>3, SMTT(30)
  <2>. QED
    BY <1>2, <2>1, Zenon DEF NotRestarted
<1>3. CASE budget'.reboot = budget.reboot - 1
  BY <1>1, <1>3, SMTT(30) DEF NotRestarted
<1>. QED
  BY <1>2, <1>3, BudgetSteps, Zenon

(* The cable and the main loop.                                            *)
AttachPlaces ==
  /\ vbus_lost_ \/ pc \in {"detach_reset", "detach_state"} => ~src.plugged
  /\ pc \in {"reattach_crc", "reattach_reset"} => hw_state_ = "UNATTACHED"
  /\ MaxPlugs = 0 => budget.plug = 0
  /\ MaxPlugs = 0 /\ isr /\ src.plugged => FirstAttach

(* The tasks that do not run yet have received and sent nothing.           *)
NothingYet ==
  /\ reader \in {"none", "crc", "reset"} => message_queue_ = <<>>
  /\ reader \in {"none", "crc", "reset"} /\ trigger # "none" => tx_fifo = <<>>
  /\ Measuring => tx_fifo = <<>>
  /\ Starting \/ Measuring => get_src_cap_retry_count_ = 0

(* The two parts of AttachInv.                                             *)
LEMMA AttachParts ==
  /\ AttachInv <=> AttachPlaces /\ NothingYet
  /\ AttachInv' <=> AttachPlaces' /\ NothingYet'
<1>1. AttachInv <=> AttachPlaces /\ NothingYet
  BY Zenon DEF AttachInv, AttachPlaces, NothingYet
<1>2. AttachInv' <=> AttachPlaces' /\ NothingYet'
  BY Zenon DEF AttachInv, AttachPlaces, NothingYet
<1>. QED
  BY <1>1, <1>2, Zenon

(* A step that leaves the main loop alone ...                              *)
LEMMA PlacesSame ==
  ASSUME AttachPlaces, UNCHANGED <<vbus_lost_, pc, hw_state_, isr>>, src'.plugged => src.plugged,
         MaxPlugs = 0 => budget'.plug = 0
  PROVE  AttachPlaces'
BY Zenon DEF AttachPlaces, FirstAttach

(* ... and one that moves it on.                                           *)
LEMMA PlacesMoved ==
  ASSUME AttachPlaces, UNCHANGED <<src, hw_state_, isr>>, vbus_lost_' = vbus_lost_, pc # "arm",
         pc' \notin {"detach_reset", "detach_state", "reattach_crc", "reattach_reset"},
         MaxPlugs = 0 => budget'.plug = 0
  PROVE  AttachPlaces'
BY Zenon DEF AttachPlaces, FirstAttach

(* The first part in every step.                                           *)
LEMMA AttachPlacesStep ==
  ASSUME Orderly, TypeOK, PhaseInv, AttachPlaces, [Next]_vars
  PROVE  AttachPlaces'
<1>0. /\ MaxPlugs = 0 => budget'.plug = 0
      /\ MaxPlugs = 0 => ~Plug
  <2>1. MaxPlugs = 0 => ~(budget.plug > 0)
    BY SMTT(30) DEF AttachPlaces
  <2>2. Plug => budget.plug > 0
    BY Zenon DEF Plug
  <2>. QED
    BY <2>1, <2>2, BudgetSteps, Zenon DEF AttachPlaces
<1>. USE DEF hwVars, taskVars
<1>1. CASE Setup
  <2>1. ~isr /\ ~vbus_lost_ /\ pc' = "idle" /\ UNCHANGED <<isr, vbus_lost_>>
    BY <1>1, Zenon DEF Setup, PhaseInv, Starting, Measuring, Spawning, Running, Stopped, LaterPcs
  <2>. QED
    BY <1>0, <2>1, Zenon DEF AttachPlaces
<1>2. CASE RunDeferred
  BY <1>0, <1>2, PlacesSame, Zenon DEF RunDeferred
<1>3. CASE RequestVoltage
  <2>1. UNCHANGED <<src, vbus_lost_, pc, hw_state_, isr>>
    BY <1>3, Zenon DEF RequestVoltage
  <2>. QED
    BY <1>0, <2>1, PlacesSame, Zenon
<1>4. CASE LoopStart
  <2>1. /\ vbus_lost_' = FALSE /\ UNCHANGED <<src, isr>>
        /\ pc = "idle" /\ pc' \in {"detach_reset", "status"}
        /\ (pc' = "detach_reset" /\ vbus_lost_) \/ hw_state_' = hw_state_
    BY <1>4, Zenon DEF LoopStart
  <2>2. CASE pc' = "detach_reset" /\ vbus_lost_
    BY <1>0, <2>1, <2>2, Zenon DEF AttachPlaces
  <2>3. CASE pc' = "status" /\ hw_state_' = hw_state_
    BY <1>0, <2>1, <2>3, Zenon DEF AttachPlaces, FirstAttach
  <2>. QED
    BY <1>4, <2>1, <2>2, <2>3, Zenon DEF LoopStart
<1>5. CASE LoopDetachReset
  BY <1>0, <1>5, Zenon DEF LoopDetachReset, AttachPlaces, FirstAttach
<1>6. CASE LoopDetachState
  BY <1>0, <1>6, PlacesMoved, Zenon DEF LoopDetachState
<1>7. CASE LoopCcIdle
  BY <1>0, <1>7, PlacesMoved, Zenon DEF LoopCcIdle
<1>8. CASE LoopCcSettle1
  BY <1>0, <1>8, PlacesMoved, Zenon DEF LoopCcSettle1
<1>9. CASE LoopCcSettle2
  <2>1. /\ UNCHANGED <<src, hw_state_, isr, vbus_lost_>> /\ hw_state_ = "UNATTACHED"
        /\ pc' \in {"spawn", "reattach_crc", "timer"} /\ pc = "status"
    BY <1>9, Zenon DEF LoopCcSettle2
  <2>. QED
    BY <1>0, <2>1, Zenon DEF AttachPlaces, FirstAttach
<1>10. CASE LoopSpawn
  <2>1. ~isr /\ ~vbus_lost_ /\ pc' \in {"arm", "timer"} /\ UNCHANGED <<isr, vbus_lost_>>
    BY <1>10, Zenon DEF LoopSpawn, PhaseInv, Starting, Measuring, Spawning, Running, Stopped,
       LaterPcs
  <2>. QED
    BY <1>0, <2>1, Zenon DEF AttachPlaces
<1>11. CASE LoopReattachCrc
  BY <1>0, <1>11, Zenon DEF LoopReattachCrc, AttachPlaces, FirstAttach
<1>12. CASE LoopReattachReset
  BY <1>0, <1>12, PlacesMoved, Zenon DEF LoopReattachReset
<1>13. CASE LoopArm
  BY <1>0, <1>13, Zenon DEF LoopArm, AttachPlaces, FirstAttach
<1>14. CASE LoopAttached
  <2>1. /\ UNCHANGED <<src, hw_state_, isr, vbus_lost_>> /\ pc = "status"
        /\ pc' \in {"timer", "send", "soft_reset", "pd_timeout"}
    BY <1>14, Zenon DEF LoopAttached
  <2>. QED
    BY <1>0, <2>1, PlacesMoved, Zenon
<1>15. CASE LoopSoftReset
  BY <1>0, <1>15, PlacesMoved, Zenon DEF LoopSoftReset
<1>16. CASE LoopSend
  BY <1>0, <1>16, PlacesMoved, Zenon DEF LoopSend
<1>17. CASE LoopPdTimeout
  BY <1>0, <1>17, PlacesMoved, Zenon DEF LoopPdTimeout
<1>18. CASE LoopTimer
  BY <1>0, <1>18, PlacesMoved, Zenon DEF LoopTimer
<1>19. CASE TriggerCreate
  <2>1. FirstAttach /\ UNCHANGED <<src, vbus_lost_, pc, hw_state_>>
    BY <1>19, TasksExist, Zenon DEF TriggerCreate, Spawning
  <2>. QED
    BY <1>0, <2>1, Zenon DEF AttachPlaces, FirstAttach
<1>20. CASE TriggerReceive \/ TriggerSoftReset
  <2>1. src' = src
    BY <1>20, Zenon DEF TriggerReceive, TriggerSoftReset
  <2>. QED
    BY <1>0, <1>20, <2>1, HandlersKeepPhase, PlacesSame, Zenon
<1>21. CASE ReaderCrc
  BY <1>0, <1>21, PlacesSame, Zenon DEF ReaderCrc
<1>22. CASE ReaderReset
  BY <1>0, <1>22, PlacesSame, Zenon DEF ReaderReset
<1>23. CASE ReaderWake
  BY <1>0, <1>23, PlacesSame, Zenon DEF ReaderWake
<1>24. CASE ReaderStatus
  <2>1. UNCHANGED <<src, pc, hw_state_, isr>>
    BY <1>24, Zenon DEF ReaderStatus
  <2>2. vbus_lost_' => vbus_lost_ \/ ~src.plugged
    BY <1>24, Zenon DEF ReaderStatus
  <2>. QED
    BY <1>0, <2>1, <2>2, Zenon DEF AttachPlaces, FirstAttach
<1>25. CASE ReaderDrain
  BY <1>0, <1>25, PlacesSame, Zenon DEF ReaderDrain
<1>26. CASE ReaderEnqueue
  BY <1>0, <1>26, PlacesSame, Zenon DEF ReaderEnqueue
<1>27. CASE Plug
  <2>1. ~vbus_lost_ /\ LoopAtRest /\ UNCHANGED <<vbus_lost_, pc, hw_state_, isr>>
    BY <1>27, Zenon DEF Plug, Settled, Orderly
  <2>. QED
    BY <1>0, <1>27, <2>1, Zenon DEF AttachPlaces, LoopAtRest
<1>28. CASE Unplug
  <2>1. ~src'.plugged /\ UNCHANGED <<vbus_lost_, pc, hw_state_, isr>>
    BY <1>28, Zenon DEF Unplug, NoSource
  <2>. QED
    BY <1>0, <2>1, PlacesSame, Zenon
<1>29. CASE TxLost
  BY <1>0, <1>29, PlacesSame, Zenon DEF TxLost
<1>30. CASE Elapse
  <2>1. UNCHANGED <<src, vbus_lost_, pc, hw_state_, isr>>
    BY <1>30, Zenon DEF Elapse
  <2>. QED
    BY <1>0, <2>1, PlacesSame, Zenon
<1>31. CASE SourceStep \/ SourceExtra
  <2>1. src.plugged
    BY <1>31, SourceStepEmits, SourceExtraEmits, Zenon DEF Emits, Orderly
  <2>2. UNCHANGED <<vbus_lost_, pc, hw_state_, isr>>
    BY <1>31, SourceRaisesIrq, Zenon
  <2>. QED
    BY <1>0, <2>1, <2>2, PlacesSame, Zenon
<1>32. CASE SourceReceives
  BY <1>0, <1>32, PlacesSame, Zenon DEF SourceReceives
<1>33. CASE Reboot
  BY <1>0, <1>33, Zenon DEF Reboot, AttachPlaces
<1>34. CASE UNCHANGED vars
  BY <1>0, <1>34, PlacesSame, Zenon DEF vars
<1>. HIDE DEF hwVars, taskVars
<1>. QED
  BY <1>1, <1>2, <1>3, <1>4, <1>5, <1>6, <1>7, <1>8, <1>9, <1>10, <1>11, <1>12, <1>13, <1>14,
     <1>15, <1>16, <1>17, <1>18, <1>19, <1>20, <1>21, <1>22, <1>23, <1>24, <1>25, <1>26, <1>27,
     <1>28, <1>29, <1>30, <1>31, <1>32, <1>33, <1>34, Zenon
  DEF Next, MainLoop, TriggerTask, ReaderTask, Environment

(* What tells the first two phases.                                        *)
LEMMA PhaseSigns ==
  /\ PhaseInv => /\ Measuring <=> trigger = "none" /\ ~failed /\ pc # "setup"
                 /\ Starting <=> pc = "setup"
  /\ PhaseInv' => /\ Measuring' <=> trigger' = "none" /\ ~failed' /\ pc' # "setup"
                  /\ Starting' <=> pc' = "setup"
<1>. USE DEF PhaseInv, Starting, Measuring, Spawning, Running, Stopped, LaterPcs
<1>1. PhaseInv => /\ Measuring <=> trigger = "none" /\ ~failed /\ pc # "setup"
                  /\ Starting <=> pc = "setup"
  BY Zenon
<1>2. PhaseInv' => /\ Measuring' <=> trigger' = "none" /\ ~failed' /\ pc' # "setup"
                   /\ Starting' <=> pc' = "setup"
  BY Zenon
<1>. QED
  BY <1>1, <1>2, Zenon

(* A step that sends nothing, queues nothing and spawns nothing.           *)
LEMMA NothingKept ==
  ASSUME PhaseInv, PhaseInv', NothingYet, UNCHANGED <<message_queue_, trigger, failed>>,
         tx_fifo = <<>> => tx_fifo' = <<>>,
         reader' \in {"none", "crc", "reset"} => reader \in {"none", "crc", "reset"},
         pc' = pc \/ (pc # "setup" /\ pc' # "setup"),
         \/ get_src_cap_retry_count_' \in {get_src_cap_retry_count_, 0}
         \/ ~Measuring /\ pc # "setup"
  PROVE  NothingYet'
<1>1. (Measuring' => Measuring) /\ (Starting' => Starting) /\ (Starting <=> pc = "setup")
  BY PhaseSigns, Zenon
<1>. QED
  BY <1>1, Zenon DEF NothingYet

(* Such are the steps of the main loop that move no message.               *)
LEMMA LoopAsideLife ==
  ASSUME LoopAside
  PROVE  /\ failed' = failed /\ pc # "setup" /\ pc' # "setup" /\ pc # "send"
         /\ \/ get_src_cap_retry_count_' \in {get_src_cap_retry_count_, 0}
            \/ hw_state_ = "ATTACHED"
<1>. USE DEF hwVars, pdVars, capVars
<1>1. CASE RunDeferred
  BY <1>1, Zenon DEF RunDeferred
<1>2. CASE RequestVoltage
  BY <1>2, Zenon DEF RequestVoltage, request_voltage
<1>3. CASE LoopStart
  BY <1>3, Zenon DEF LoopStart
<1>4. CASE LoopDetachState
  BY <1>4, Zenon DEF LoopDetachState
<1>5. CASE LoopCcIdle
  BY <1>5, Zenon DEF LoopCcIdle
<1>6. CASE LoopCcSettle1
  BY <1>6, Zenon DEF LoopCcSettle1
<1>7. CASE LoopCcSettle2
  BY <1>7, Zenon DEF LoopCcSettle2
<1>8. CASE LoopReattachCrc
  BY <1>8, Zenon DEF LoopReattachCrc
<1>9. CASE LoopArm
  BY <1>9, Zenon DEF LoopArm
<1>10. CASE LoopAttached
  BY <1>10, Zenon DEF LoopAttached
<1>11. CASE LoopPdTimeout
  BY <1>11, Zenon DEF LoopPdTimeout
<1>12. CASE LoopTimer
  BY <1>12, Zenon DEF LoopTimer
<1>. HIDE DEF hwVars, pdVars, capVars
<1>. QED
  BY <1>1, <1>2, <1>3, <1>4, <1>5, <1>6, <1>7, <1>8, <1>9, <1>10, <1>11, <1>12, Zenon
  DEF LoopAside

(* The second part in every step.                                          *)
LEMMA NothingYetStep ==
  ASSUME Orderly, TypeOK, PhaseInv, PhaseInv', DueInv, NothingYet, [Next]_vars
  PROVE  NothingYet'
<1>. USE DEF Orderly, taskVars, hwVars, pdVars, capVars
<1>0. Measuring' <=> trigger' = "none" /\ ~failed' /\ pc' # "setup"
  BY PhaseSigns, Zenon
<1>00. Starting' <=> pc' = "setup"
  BY PhaseSigns, Zenon
<1>1. CASE LoopAside
  <2>1. UNCHANGED <<message_queue_, trigger, failed, tx_fifo, reader>>
    BY <1>1, LoopAsideKeeps, LoopAsideLife, Zenon DEF flowVars
  <2>2. /\ pc # "setup" /\ pc' # "setup"
        /\ \/ get_src_cap_retry_count_' \in {get_src_cap_retry_count_, 0}
           \/ ~Measuring
    BY <1>1, LoopAsideLife, Zenon DEF Measuring
  <2>. QED
    BY <2>1, <2>2, NothingKept, Zenon
<1>2. CASE ReaderAside
  <2>1. UNCHANGED <<message_queue_, trigger, failed, tx_fifo, pc, get_src_cap_retry_count_>>
    BY <1>2, Zenon DEF ReaderAside, ReaderCrc, ReaderWake, ReaderStatus
  <2>2. reader' \in {"none", "crc", "reset"} => reader \in {"none", "crc", "reset"}
    BY <1>2, Zenon DEF ReaderAside, ReaderCrc, ReaderWake, ReaderStatus
  <2>. QED
    BY <2>1, <2>2, NothingKept, Zenon
<1>3. CASE Elapse
  <2>1. UNCHANGED <<message_queue_, trigger, failed, tx_fifo, pc, get_src_cap_retry_count_, reader>>
    BY <1>3, Zenon DEF Elapse
  <2>. QED
    BY <2>1, NothingKept, Zenon
<1>4. CASE UNCHANGED vars
  <2>1. UNCHANGED <<message_queue_, trigger, failed, tx_fifo, pc, get_src_cap_retry_count_, reader>>
    BY <1>4, Zenon DEF vars
  <2>. QED
    BY <2>1, NothingKept, Zenon
<1>5. CASE Setup
  <2>1. /\ UNCHANGED <<message_queue_, trigger, reader, get_src_cap_retry_count_>>
        /\ pc = "setup" /\ pc' = "idle" /\ (tx_fifo' = <<>> \/ failed')
    BY <1>5, Zenon DEF Setup
  <2>2. Starting
    BY <2>1, PhaseSigns, Zenon
  <2>. QED
    BY <1>0, <2>1, <2>2, Zenon DEF NothingYet, Starting
<1>6. CASE LoopDetachReset \/ LoopReattachReset \/ LoopSoftReset
  <2>1. /\ UNCHANGED <<message_queue_, trigger, failed, get_src_cap_retry_count_, reader>>
        /\ tx_fifo' = <<>> /\ pc # "setup" /\ pc' # "setup"
    BY <1>6, Zenon DEF LoopDetachReset, LoopReattachReset, LoopSoftReset, fusb_reset_
  <2>. QED
    BY <2>1, NothingKept, Zenon
<1>7. CASE LoopSpawn
  <2>1. /\ UNCHANGED <<message_queue_, tx_fifo, reader>> /\ pc = "spawn" /\ pc' # "setup"
        /\ trigger' # "none" \/ failed'
    BY <1>7, Zenon DEF LoopSpawn
  <2>2. Measuring
    BY <2>1, Zenon DEF PhaseInv, Starting, Measuring, Spawning, Running, Stopped, LaterPcs
  <2>. QED
    BY <1>0, <1>00, <2>1, <2>2, Zenon DEF NothingYet
<1>8. CASE LoopSend
  <2>1. UNCHANGED <<message_queue_, trigger, reader, failed>> /\ pc = "send" /\ pc' = "timer"
    BY <1>8, Zenon DEF LoopSend
  <2>2. trigger # "none" => reader \notin {"none", "crc", "reset"}
    BY <2>1, Zenon DEF DueInv, SendDue, DuePcs
  <2>3. trigger = "none" => failed
    BY <2>1, Zenon DEF PhaseInv, Starting, Measuring, Spawning, Running, Stopped, LaterPcs
  <2>. QED
    BY <1>0, <1>00, <2>1, <2>2, <2>3, Zenon DEF NothingYet
<1>9. CASE TriggerCreate
  <2>1. /\ UNCHANGED <<message_queue_, tx_fifo, pc>> /\ trigger = "create"
        /\ trigger' # "none" \/ failed'
    BY <1>9, Zenon DEF TriggerCreate
  <2>2. reader = "none" /\ pc # "setup"
    BY <2>1, TasksExist, Zenon DEF Spawning, LaterPcs
  <2>. QED
    BY <1>0, <1>00, <2>1, <2>2, Zenon DEF NothingYet
<1>10. CASE TriggerReceive
  <2>1. message_queue_ # <<>> /\ UNCHANGED <<reader, pc>> /\ trigger = "receive"
    BY <1>10, Zenon DEF TriggerReceive
  <2>2. reader' \notin {"none", "crc", "reset"}
    BY <2>1, Zenon DEF NothingYet
  <2>3. trigger' # "none" /\ pc' # "setup"
    BY <1>10, <2>1, HandlersKeepPhase, Zenon DEF PhaseInv, Starting, Measuring, Spawning, Running, Stopped
  <2>. QED
    BY <1>0, <1>00, <2>2, <2>3, Zenon DEF NothingYet
<1>11. CASE TriggerSoftReset
  <2>1. /\ UNCHANGED <<message_queue_, tx_fifo, reader, pc>> /\ trigger = "soft_reset"
        /\ trigger' = "receive"
    BY <1>11, Zenon DEF TriggerSoftReset, handle_soft_reset_rest
  <2>2. pc # "setup"
    BY <2>1, Zenon DEF PhaseInv, Starting, Measuring, Spawning, Running, Stopped
  <2>. QED
    BY <1>0, <1>00, <2>1, <2>2, Zenon DEF NothingYet
<1>12. CASE ReaderReset \/ ReaderDrain
  <2>1. /\ UNCHANGED <<message_queue_, trigger, failed, get_src_cap_retry_count_, pc>>
        /\ tx_fifo = <<>> => tx_fifo' = <<>>
        /\ reader' \notin {"none", "crc", "reset"}
    BY <1>12, Zenon DEF ReaderReset, ReaderDrain, fusb_reset_
  <2>. QED
    BY <2>1, NothingKept, Zenon
<1>13. CASE ReaderEnqueue
  <2>1. UNCHANGED <<trigger, failed, pc>> /\ reader = "enqueue" /\ reader' = "drain"
    BY <1>13, Zenon DEF ReaderEnqueue
  <2>2. trigger # "none" /\ pc # "setup"
    BY <2>1, Zenon DEF PhaseInv, Starting, Measuring, Spawning, Running, Stopped
  <2>. QED
    BY <1>0, <1>00, <2>1, <2>2, Zenon DEF NothingYet
<1>14. CASE Plug \/ Unplug \/ TxLost \/ SourceReceives
  <2>1. /\ UNCHANGED <<message_queue_, trigger, failed, get_src_cap_retry_count_, pc, reader>>
        /\ tx_fifo = <<>> => tx_fifo' = <<>>
    BY <1>14, Zenon DEF Plug, Unplug, TxLost, SourceReceives
  <2>. QED
    BY <2>1, NothingKept, Zenon
<1>15. CASE SourceStep \/ SourceExtra
  <2>1. UNCHANGED <<message_queue_, trigger, failed, tx_fifo, get_src_cap_retry_count_, pc, reader>>
    BY <1>15, SourceRaisesIrq, Zenon
  <2>. QED
    BY <2>1, NothingKept, Zenon
<1>16. CASE Reboot
  <2>1. /\ message_queue_' = <<>> /\ trigger' = "none" /\ pc' = "setup"
        /\ get_src_cap_retry_count_' = 0
    BY <1>16, Zenon DEF Reboot
  <2>. QED
    BY <1>0, <2>1, Zenon DEF NothingYet
<1>. HIDE DEF Orderly, taskVars, hwVars, pdVars, capVars
<1>. QED
  BY <1>1, <1>2, <1>3, <1>4, <1>5, <1>6, <1>7, <1>8, <1>9, <1>10, <1>11, <1>12, <1>13, <1>14,
     <1>15, <1>16, StepKinds, Zenon DEF Aside

-----------------------------------------------------------------------------
(* The exchange of messages in every reachable state.                      *)
FlowInv == AttachInv /\ DueInv /\ ExchangeInv

(* At the start.                                                           *)
LEMMA FlowInit == Init => FlowInv
<1>. SUFFICES ASSUME Init
              PROVE  FlowInv
  BY Zenon
<1>0. /\ pc = "setup" /\ trigger = "none" /\ reader = "none" /\ ~isr /\ ~vbus_lost_
      /\ tx_fifo = <<>> /\ message_queue_ = <<>> /\ get_src_cap_retry_count_ = 0
  BY Zenon DEF Init, PowerUp, PdInit
<1>1. AttachInv
  <2>1. budget.plug = MaxPlugs
    BY Zenon DEF Init
  <2>. QED
    BY <1>0, <2>1, Zenon DEF AttachInv
<1>2. DueInv
  BY <1>0, Zenon DEF DueInv, SendDue, DuePcs
<1>3. ExchangeInv
  <2>1. ~src.surprised
    <3>1. CASE src \in Sources
      <4>1. PICK caps \in SourceCaps, cc \in CcLines : src = PluggedSource(caps, cc)
        BY <3>1, SMTT(30) DEF Sources
      <4>. QED
        BY <4>1, Zenon DEF PluggedSource, NoSource
    <3>2. CASE src = NoSource
      BY <3>2, Zenon DEF NoSource
    <3>. QED
      BY <3>1, <3>2, Zenon DEF Init
  <2>2. RequestsAwaited
    BY <1>0, SMTT(30) DEF RequestsAwaited
  <2>. QED
    BY <1>0, <2>1, <2>2, Zenon DEF ExchangeInv, QuestionsOpen, OneAtATime, Exchanging,
       RequestOnlyWhenAsked
<1>. QED
  BY <1>1, <1>2, <1>3, Zenon DEF FlowInv

(* In every step.                                                          *)
LEMMA FlowStep ==
  ASSUME Orderly, DriverInv, DriverInv', FlowInv, [Next]_vars
  PROVE  FlowInv'
<1>1. TypeOK /\ TypeOK' /\ PhaseInv /\ PhaseInv' /\ FifoInv /\ SoftResetInv
  BY Zenon DEF DriverInv
<1>2. AttachInv /\ DueInv /\ ExchangeInv
  BY Zenon DEF FlowInv
<1>3. AttachPlaces' /\ NothingYet'
  BY <1>1, <1>2, AttachParts, AttachPlacesStep, NothingYetStep, Zenon
<1>4. AttachInv'
  BY <1>3, AttachParts, Zenon
<1>5. DueInv'
  BY <1>1, <1>2, DueStep, Zenon
<1>6. ExchangeInv'
  BY <1>1, <1>2, ExchangeStep, Zenon
<1>. QED
  BY <1>4, <1>5, <1>6, Zenon DEF FlowInv

(* There is one exchange at a time between the driver and the source, and  *)
(* check_status_ interferes only when none is under way.                   *)
THEOREM FlowInvariant ==
  ASSUME Orderly
  PROVE  Spec => []FlowInv
<1>1. Init => FlowInv
  BY FlowInit, Zenon
<1>2. DriverInv /\ DriverInv' /\ FlowInv /\ [Next]_vars => FlowInv'
  BY FlowStep, Zenon
<1>. QED
  BY <1>1, <1>2, DriverInvariant, PTL DEF Spec

(* The driver sends a REQUEST only to a source that waits for one, whatever*)
(* is retransmitted, soft-reset, unplugged or restarted in between, as long*)
(* as the I2C bus works, everybody answers within the timeouts, and no     *)
(* acknowledge is lost where the cable may be plugged in again.            *)
THEOREM RequestsAreAsked ==
  ASSUME Orderly
  PROVE  Spec => []RequestOnlyWhenAsked
<1>1. FlowInv => RequestOnlyWhenAsked
  BY Zenon DEF FlowInv, ExchangeInv
<1>. QED
  BY <1>1, FlowInvariant, PTL

-----------------------------------------------------------------------------
(* How the exchange comes about: where loop() and the tasks are when a     *)
(* source is plugged in, and what it has not been asked yet.               *)

(* A step that moves nothing PlaceInv is about ...                         *)
LEMMA PlaceKept ==
  ASSUME PlaceInv, budget'.reboot <= MaxReboots, trigger' \in {"none", "create"} => trigger' = trigger,
         UNCHANGED <<pc, hw_state_, isr, auto_crc, reader, vbus_lost_>>,
         trigger' \in {"none", "create"} => state_' = state_
  PROVE  PlaceInv'
BY Zenon DEF PlaceInv, FirstAttach, DuePcs

(* ... and one of loop() that does not attach.                             *)
LEMMA PlaceMoved ==
  ASSUME PlaceInv, budget'.reboot <= MaxReboots, state_' = state_ \/ state_' # "EXPLICIT_SPR_CONTRACT",
         UNCHANGED <<trigger, hw_state_, isr, reader, vbus_lost_>>,
         auto_crc' = auto_crc \/ hw_state_ = "UNATTACHED",
         pc # "arm", pc' \notin {"reattach_reset", "arm"},
         pc' \in DuePcs => hw_state_ = "ATTACHED"
  PROVE  PlaceInv'
BY Zenon DEF PlaceInv, FirstAttach, DuePcs

(* AUTO_CRC is off only before it has been enabled.                        *)
LEMMA PlaceStep ==
  ASSUME "i2c" \notin Faults, TypeOK, PhaseInv, AttachInv, PlaceInv, [Next]_vars
  PROVE  PlaceInv'
<1>0. budget'.reboot <= MaxReboots
  BY RebootsCounted, Zenon DEF PlaceInv
<1>. USE DEF hwVars, taskVars, chipVars, pdVars, stateVars
<1>1. CASE Setup \/ LoopSpawn \/ Reboot
  <2>1. ~isr' /\ reader' = "none" /\ pc' \in {"idle", "arm", "timer", "setup"}
    <3>1. CASE Setup \/ LoopSpawn
      <4>1. pc \in {"setup", "spawn"} /\ UNCHANGED <<isr, reader>> /\ pc' \in {"idle", "arm", "timer"}
        BY <3>1, Zenon DEF Setup, LoopSpawn
      <4>2. ~isr /\ reader = "none"
        BY <4>1, Zenon DEF PhaseInv, Starting, Measuring, Spawning, Running, Stopped, LaterPcs
      <4>. QED
        BY <4>1, <4>2, Zenon
    <3>2. CASE Reboot
      BY <3>2, Zenon DEF Reboot
    <3>. QED
      BY <1>1, <3>1, <3>2, Zenon
  <2>2. trigger' \in {"none", "create"} => state_' # "EXPLICIT_SPR_CONTRACT"
    <3>1. CASE Setup \/ LoopSpawn
      <4>1. pc \in {"setup", "spawn"} /\ state_' \in {state_, "ERROR"}
        BY <3>1, Zenon DEF Setup, LoopSpawn, set_state_
      <4>2. trigger = "none"
        BY <4>1, Zenon DEF PhaseInv, Starting, Measuring, Spawning, Running, Stopped, LaterPcs
      <4>. QED
        BY <4>1, <4>2, Zenon DEF PlaceInv
    <3>2. CASE Reboot
      BY <3>2, Zenon DEF Reboot
    <3>. QED
      BY <1>1, <3>1, <3>2, Zenon
  <2>. QED
    BY <1>0, <2>1, <2>2, Zenon DEF PlaceInv, DuePcs
<1>2. CASE RunDeferred
  BY <1>0, <1>2, PlaceKept, Zenon DEF RunDeferred
<1>3. CASE RequestVoltage
  <2>1. UNCHANGED <<trigger, state_, pc, hw_state_, isr, auto_crc, reader, vbus_lost_>>
    BY <1>3, Zenon DEF RequestVoltage, request_voltage
  <2>. QED
    BY <1>0, <2>1, PlaceKept, Zenon
<1>4. CASE LoopStart
  <2>1. /\ UNCHANGED <<trigger, state_, isr, auto_crc, reader>>
        /\ pc = "idle" /\ pc' \in {"detach_reset", "status"} /\ ~vbus_lost_'
        /\ (vbus_lost_ /\ hw_state_' = "UNATTACHED") \/ hw_state_' = hw_state_
    BY <1>4, Zenon DEF LoopStart
  <2>. QED
    BY <1>0, <2>1, Zenon DEF PlaceInv, FirstAttach, DuePcs
<1>5. CASE LoopDetachReset \/ LoopDetachState \/ LoopTimer \/ LoopSoftReset \/ LoopSend \/ LoopPdTimeout
  <2>1. /\ UNCHANGED <<trigger, hw_state_, isr, auto_crc, reader, vbus_lost_>>
        /\ state_' = state_ \/ state_' # "EXPLICIT_SPR_CONTRACT"
        /\ pc # "arm" /\ pc' \notin {"reattach_reset", "arm"}
        /\ pc' \in DuePcs => pc \in DuePcs
    BY <1>5, Zenon DEF LoopDetachReset, LoopDetachState, LoopTimer, LoopSoftReset, LoopSend,
       LoopPdTimeout, set_state_, DuePcs
  <2>2. pc \in DuePcs => hw_state_ = "ATTACHED"
    BY Zenon DEF PlaceInv
  <2>. QED
    BY <1>0, <2>1, <2>2, PlaceMoved, Zenon
<1>6. CASE LoopCcIdle \/ LoopCcSettle1 \/ LoopCcSettle2
  <2>1. /\ UNCHANGED <<state_, trigger, hw_state_, isr, reader, vbus_lost_>>
        /\ hw_state_ = "UNATTACHED" /\ pc = "status" /\ pc' \in {"timer", "spawn", "reattach_crc"}
    BY <1>6, Zenon DEF LoopCcIdle, LoopCcSettle1, LoopCcSettle2
  <2>. QED
    BY <1>0, <2>1, PlaceMoved, Zenon DEF DuePcs
<1>7. CASE LoopReattachCrc
  <2>1. /\ UNCHANGED <<state_, trigger, hw_state_, isr, reader, vbus_lost_>>
        /\ auto_crc' /\ pc = "reattach_crc" /\ pc' = "reattach_reset"
    BY <1>7, Zenon DEF LoopReattachCrc, enable_auto_crc
  <2>. QED
    BY <1>0, <2>1, Zenon DEF PlaceInv, FirstAttach, DuePcs
<1>8. CASE LoopReattachReset
  <2>1. /\ UNCHANGED <<state_, trigger, hw_state_, isr, auto_crc, reader, vbus_lost_>>
        /\ pc = "reattach_reset" /\ pc' = "arm"
    BY <1>8, Zenon DEF LoopReattachReset
  <2>. QED
    BY <1>0, <2>1, Zenon DEF PlaceInv, FirstAttach, DuePcs
<1>9. CASE LoopArm
  <2>1. /\ UNCHANGED <<trigger, isr, auto_crc, reader, vbus_lost_>> /\ hw_state_' = "ATTACHED"
        /\ state_' = "DEFAULT_CONTRACT" /\ pc = "arm" /\ pc' = "timer"
    BY <1>9, Zenon DEF LoopArm, set_state_
  <2>. QED
    BY <1>0, <2>1, Zenon DEF PlaceInv, FirstAttach, DuePcs
<1>10. CASE LoopAttached
  <2>1. /\ UNCHANGED <<state_, trigger, hw_state_, isr, auto_crc, reader, vbus_lost_>>
        /\ pc = "status" /\ hw_state_ = "ATTACHED"
        /\ pc' \in {"timer", "send", "soft_reset", "pd_timeout"}
    BY <1>10, Zenon DEF LoopAttached
  <2>. QED
    BY <1>0, <2>1, PlaceMoved, Zenon
<1>11. CASE TriggerCreate
  <2>1. Spawning
    BY <1>11, TasksExist, Zenon DEF TriggerCreate
  <2>2. /\ UNCHANGED <<state_, pc, hw_state_, auto_crc, vbus_lost_>>
        /\ (isr' /\ reader' = "crc" /\ trigger' = "receive") \/ (UNCHANGED <<isr, reader>>)
    BY <1>11, Zenon DEF TriggerCreate
  <2>3. state_' # "EXPLICIT_SPR_CONTRACT" /\ (pc' \in DuePcs => hw_state_' = "ATTACHED")
    BY <2>1, <2>2, Zenon DEF Spawning, PlaceInv
  <2>4. FirstAttach' /\ ~vbus_lost_'
    BY <2>1, <2>2, Zenon DEF Spawning, FirstAttach
  <2>5. ~isr' \/ reader' = "crc"
    BY <2>1, <2>2, Zenon DEF Spawning
  <2>. QED
    BY <1>0, <2>3, <2>4, <2>5, Zenon DEF PlaceInv
<1>12. CASE TriggerReceive \/ TriggerSoftReset
  <2>1. UNCHANGED <<pc, hw_state_, isr, auto_crc, reader, vbus_lost_>> /\ trigger' \in {"receive", "soft_reset"}
    BY <1>12, Zenon DEF TriggerReceive, TriggerSoftReset
  <2>. QED
    BY <1>0, <2>1, PlaceKept, Zenon
<1>13. CASE ReaderCrc \/ ReaderReset
  <2>1. /\ UNCHANGED <<state_, trigger, pc, hw_state_, isr, vbus_lost_>>
        /\ \/ reader = "crc" /\ reader' = "reset" /\ auto_crc'
           \/ reader = "reset" /\ reader' = "wait" /\ auto_crc' = auto_crc
    BY <1>13, Zenon DEF ReaderCrc, ReaderReset, enable_auto_crc
  <2>. QED
    BY <1>0, <2>1, Zenon DEF PlaceInv, FirstAttach
<1>14. CASE ReaderWake \/ ReaderStatus \/ ReaderDrain \/ ReaderEnqueue
  <2>1. /\ UNCHANGED <<state_, trigger, pc, hw_state_, isr, auto_crc>>
        /\ reader \notin {"crc", "reset"} /\ reader' \notin {"crc", "reset"}
    BY <1>14, Zenon DEF ReaderWake, ReaderStatus, ReaderDrain, ReaderEnqueue
  <2>. QED
    BY <1>0, <2>1, Zenon DEF PlaceInv, FirstAttach
<1>15. CASE Plug \/ Unplug \/ TxLost \/ SourceReceives \/ Elapse \/ UNCHANGED vars
  <2>1. UNCHANGED <<state_, trigger, pc, hw_state_, isr, auto_crc, reader, vbus_lost_>>
    BY <1>15, Zenon DEF Plug, Unplug, TxLost, SourceReceives, Elapse, vars
  <2>. QED
    BY <1>0, <2>1, PlaceKept, Zenon
<1>16. CASE SourceStep \/ SourceExtra
  BY <1>0, <1>16, SourceRaisesIrq, PlaceKept, Zenon
<1>. QED
  BY <1>1, <1>2, <1>3, <1>4, <1>5, <1>6, <1>7, <1>8, <1>9, <1>10, <1>11, <1>12, <1>13, <1>14, <1>15,
     <1>16, StepKinds, Zenon DEF Aside, LoopAside, ReaderAside

(* A step after which no more has been asked.                              *)
LEMMA UnaskedKept ==
  ASSUME Unasked, NotRestarted' => NotRestarted, src' = src, ~Counting' => ~Counting,
         failed => failed', tx_fifo' = tx_fifo \/ tx_fifo' = <<>>,
         \A type : InPipe(type)' => InPipe(type)
  PROVE  Unasked'
BY Zenon DEF Unasked

(* A pipe that loses what is in the RX FIFO.                               *)
LEMMA CutTypes ==
  ASSUME TypeOK, TypeOK', rx_fifo' = <<>> \/ rx_fifo' = rx_fifo, UNCHANGED <<message_queue_, Held>>
  PROVE  \A type : InPipe(type)' => InPipe(type)
<1>1. CASE rx_fifo' = <<>>
  <2>1. /\ Len(Pipe') <= Len(Pipe)
        /\ \A i \in 1..Len(Pipe') : Pipe'[i] = Pipe[i]
    BY <1>1, PipeCut, Zenon
  <2>2. Len(Pipe) \in Nat /\ Len(Pipe') \in Nat
    BY PipeLengths, Zenon
  <2>3. \A i \in 1..Len(Pipe') : i \in 1..Len(Pipe)
    BY <2>1, <2>2, SMTT(30)
  <2>. QED
    BY <2>1, <2>3, Zenon DEF InPipe
<1>2. CASE rx_fifo' = rx_fifo
  <2>1. Pipe' = Pipe
    BY <1>2, Zenon DEF Pipe
  <2>. QED
    BY <2>1, Zenon DEF InPipe
<1>. QED
  BY <1>1, <1>2, Zenon

(* Until the reader has reset the chip, the driver sends nothing and the   *)
(* source only its capabilities.                                           *)
LEMMA UnaskedStep ==
  ASSUME Orderly, Unsolicited \intersect Unanswered = {}, TypeOK, TypeOK', PhaseInv, FifoInv, DueInv,
         AttachInv, PlaceInv, Unasked, [Next]_vars
  PROVE  Unasked'
<1>. USE DEF Orderly, taskVars, hwVars, pdVars
<1>0. NotRestarted' => NotRestarted /\ ~Reboot
  BY RebootsCounted, Zenon DEF PlaceInv
<1>1. CASE Aside
  <2>1. UNCHANGED <<src, tx_fifo, Pipe>>
    BY <1>1, AsideKeeps, Zenon DEF flowVars
  <2>2. failed' = failed /\ (~Counting' => ~Counting)
    <3>1. CASE LoopAside
      BY <3>1, LoopAsideKeeps, LoopAsideLife, Zenon DEF flowVars, Counting
    <3>2. CASE ReaderAside
      BY <3>2, Zenon DEF ReaderAside, ReaderCrc, ReaderWake, ReaderStatus, Counting
    <3>3. CASE Elapse \/ UNCHANGED vars
      BY <3>3, Zenon DEF Elapse, vars, Counting
    <3>. QED
      BY <1>1, <3>1, <3>2, <3>3, Zenon DEF Aside
  <2>3. \A type : InPipe(type)' => InPipe(type)
    BY <2>1, Zenon DEF InPipe
  <2>. QED
    BY <1>0, <2>1, <2>2, <2>3, UnaskedKept, Zenon
<1>2. CASE Setup
  <2>1. /\ UNCHANGED <<src, reader, message_queue_, Held>> /\ tx_fifo' \in {tx_fifo, <<>>}
        /\ rx_fifo' \in {rx_fifo, <<>>} /\ pc = "setup"
    BY <1>2, Zenon DEF Setup, Held
  <2>2. ~failed
    BY <2>1, PhaseSigns, Zenon DEF Starting
  <2>3. \A type : InPipe(type)' => InPipe(type)
    BY <2>1, CutTypes, Zenon
  <2>. QED
    BY <1>0, <2>1, <2>2, <2>3, UnaskedKept, Zenon DEF Counting
<1>3. CASE LoopDetachReset \/ LoopReattachReset \/ LoopSoftReset
  <2>1. /\ UNCHANGED <<src, failed, reader, message_queue_, Held>>
        /\ tx_fifo' = <<>> /\ rx_fifo' = <<>>
    BY <1>3, Zenon DEF LoopDetachReset, LoopReattachReset, LoopSoftReset, fusb_reset_, Held
  <2>2. \A type : InPipe(type)' => InPipe(type)
    BY <2>1, CutTypes, Zenon
  <2>. QED
    BY <1>0, <2>1, <2>2, UnaskedKept, Zenon DEF Counting
<1>4. CASE LoopSpawn
  <2>1. UNCHANGED <<src, reader, tx_fifo, message_queue_, rx_fifo, Held>> /\ pc = "spawn"
    BY <1>4, Zenon DEF LoopSpawn, chipVars, Held
  <2>2. ~failed
    BY <2>1, Zenon DEF PhaseInv, Starting, Measuring, Spawning, Running, Stopped, LaterPcs
  <2>3. \A type : InPipe(type)' => InPipe(type)
    BY <2>1, CutTypes, Zenon
  <2>. QED
    BY <1>0, <2>1, <2>2, <2>3, UnaskedKept, Zenon DEF Counting
<1>5. CASE LoopSend
  <2>1. UNCHANGED <<reader, failed>> /\ pc = "send"
    BY <1>5, Zenon DEF LoopSend
  <2>2. Counting \/ failed
    <3>1. trigger # "none" => Counting
      BY <2>1, Zenon DEF DueInv, SendDue, DuePcs, Counting
    <3>2. trigger = "none" => failed
      BY <2>1, Zenon DEF PhaseInv, Starting, Measuring, Spawning, Running, Stopped, LaterPcs
    <3>. QED
      BY <3>1, <3>2, Zenon
  <2>. QED
    BY <2>1, <2>2, Zenon DEF Unasked, Counting
<1>6. CASE TriggerCreate
  <2>1. UNCHANGED <<src, tx_fifo, message_queue_, rx_fifo>> /\ trigger = "create" /\ reader' # "enqueue"
    BY <1>6, TasksExist, Zenon DEF TriggerCreate, chipVars
  <2>2. ~Counting /\ ~failed /\ reader = "none"
    BY <2>1, TasksExist, Zenon DEF Counting, Spawning
  <2>3. Held' = Held
    BY <2>1, <2>2, Zenon DEF Held
  <2>4. \A type : InPipe(type)' => InPipe(type)
    BY <2>1, <2>3, CutTypes, Zenon
  <2>. QED
    BY <1>0, <2>1, <2>2, <2>4, UnaskedKept, Zenon
<1>7. CASE TriggerReceive \/ ReaderReset \/ ReaderDrain \/ ReaderEnqueue
  <2>1. Counting'
    <3>1. CASE TriggerReceive
      <4>1. message_queue_ # <<>> /\ UNCHANGED reader
        BY <3>1, Zenon DEF TriggerReceive
      <4>. QED
        BY <4>1, Zenon DEF AttachInv, Counting
    <3>2. CASE ReaderReset \/ ReaderDrain \/ ReaderEnqueue
      BY <3>2, Zenon DEF ReaderReset, ReaderDrain, ReaderEnqueue, Counting
    <3>. QED
      BY <1>7, <3>1, <3>2, Zenon
  <2>. QED
    BY <2>1, Zenon DEF Unasked
<1>8. CASE TriggerSoftReset
  <2>1. UNCHANGED <<src, failed, tx_fifo, reader, message_queue_, rx_fifo, Held>>
    BY <1>8, Zenon DEF TriggerSoftReset, handle_soft_reset_rest, chipVars, Held
  <2>2. \A type : InPipe(type)' => InPipe(type)
    BY <2>1, CutTypes, Zenon
  <2>. QED
    BY <1>0, <2>1, <2>2, UnaskedKept, Zenon DEF Counting
<1>9. CASE Plug
  <2>. SUFFICES ASSUME ~Counting', ~failed'
                PROVE  Unasked'
    BY Zenon DEF Unasked
  <2>1. /\ Settled /\ src' \in Sources
        /\ UNCHANGED <<reader, trigger, failed, tx_fifo, message_queue_, rx_fifo, Held>>
    BY <1>9, Zenon DEF Plug, Held
  <2>2. trigger = "none"
    BY <2>1, SettledPipe, Zenon DEF Counting
  <2>3. Measuring
    BY <2>1, <2>2, Zenon DEF PhaseInv, Starting, Spawning, Running, Stopped, Settled, LoopAtRest
  <2>4. OnlyGoodCrc
    BY <2>1, <2>3, QuietPipe, Zenon DEF Settled, Measuring
  <2>5. \A type : InPipe(type)' => InPipe(type)
    BY <2>1, CutTypes, Zenon
  <2>6. src'.mode \in {"off", "caps"} /\ tx_fifo' = <<>>
    BY <2>1, NewSource, Zenon DEF Settled
  <2>. QED
    BY <2>4, <2>5, <2>6, QuietDue, Zenon DEF Unasked
<1>10. CASE Unplug
  <2>1. ~src'.plugged
    BY <1>10, Zenon DEF Unplug, NoSource
  <2>. QED
    BY <2>1, Zenon DEF Unasked
<1>11. CASE TxLost \/ SourceReceives
  <2>1. UNCHANGED <<reader, failed>> /\ tx_fifo # <<>> /\ (src'.plugged => src.plugged)
    BY <1>11, Zenon DEF TxLost, SourceReceives
  <2>. QED
    BY <1>0, <2>1, Zenon DEF Unasked, Counting
<1>12. CASE SourceStep \/ SourceExtra
  <2>1. UNCHANGED <<failed, tx_fifo, reader, message_queue_, Held>>
    BY <1>12, SourceRaisesIrq, Zenon DEF Held
  <2>2. PICK m \in SourceMessages : Speaks(m)
    BY <1>12, SourceStepSpeaks, SourceExtraSpeaks, Zenon
  <2>3. src.plugged
    BY <1>12, SourceStepEmits, SourceExtraEmits, Zenon DEF Emits
  <2>. SUFFICES ASSUME NotRestarted', ~Counting', ~failed'
                PROVE  Unasked'
    BY Zenon DEF Unasked
  <2>4. /\ tx_fifo = <<>> /\ src.mode \in {"off", "caps", "wait_req"}
        /\ ~InPipe("ACCEPT") /\ ~InPipe("PS_RDY")
    BY <1>0, <2>1, <2>3, Zenon DEF Unasked, Counting
  <2>5. m.type = "SOURCE_CAP" /\ src'.mode = "wait_req"
    BY <2>2, <2>4, Zenon DEF Speaks
  <2>6. /\ Len(Pipe) \in Nat
        /\ \A i \in 1..Len(Pipe) : i \in 1..Len(Pipe') /\ Pipe'[i] = Pipe[i]
        /\ \A i \in 1..Len(Pipe') : i \in 1..Len(Pipe) \/ Pipe'[i] = m
    BY <2>1, <2>2, PipeEmitted, Zenon DEF Speaks, SourceMessages
  <2>7. ~InPipe("ACCEPT")' /\ ~InPipe("PS_RDY")'
    BY <2>4, <2>5, <2>6, Zenon DEF InPipe
  <2>. QED
    BY <2>1, <2>4, <2>5, <2>7, Zenon DEF Unasked
<1>13. CASE Reboot
  BY <1>0, <1>13, Zenon DEF Unasked
<1>. HIDE DEF Orderly, taskVars, hwVars, pdVars
<1>. QED
  BY <1>1, <1>2, <1>3, <1>4, <1>5, <1>6, <1>7, <1>8, <1>9, <1>10, <1>11, <1>12, <1>13, StepKinds,
     Zenon
=============================================================================
