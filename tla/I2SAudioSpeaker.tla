-------------------------- MODULE I2SAudioSpeaker --------------------------
(***************************************************************************)
(* The I2S speakers: I2SAudioSpeakerBase and I2SAudioSpeaker of            *)
(* components/i2s_audio/speaker, on the port of module I2SPort.  Four      *)
(* threads meet in a speaker: the main loop, the speaker task, the task of *)
(* a client that calls play(), and the on_sent interrupt.  They share the  *)
(* event group (bits), the plain member state_ and a queue of interrupts.  *)
(*                                                                         *)
(* Audio is counted in DMA buffers: a write fills a whole one.  An         *)
(* iteration of the task is one step; it is far shorter than the playing   *)
(* of what it has buffered (read_delay is half of that).                   *)
(***************************************************************************)
EXTENDS I2SPort, FiniteSets

CONSTANTS
  DMA_BUFFERS_COUNT,     \* buffers of the channel
  RingSize,              \* buffers the ring buffer of a speaker holds
  Requests,              \* what clients may do besides play()
  MaxPlays, MaxRequests  \* bounds on the clients

RequestKinds == {"stop", "finish", "pause", "stream", "switch", "has_buffered_data"}

ASSUME SpeakerAssumption ==
  /\ DMA_BUFFERS_COUNT \in Nat \ {0} /\ RingSize \in Nat \ {0}
  /\ Requests \subseteq RequestKinds /\ MaxPlays \in Nat /\ MaxRequests \in Nat

I2S_EVENT_QUEUE_COUNT == DMA_BUFFERS_COUNT + 1

VARIABLES
  state_, bits, error, pause_state_,   \* per speaker; error: of the component's status
  task,          \* the speaker task and its locals
  ring,          \* buffers in the ring buffer
  events,        \* length of i2s_event_queue_
  dma,           \* external: filled buffers of the channel
  main,          \* where the main loop is, and the bits it has read
  client,        \* the client's task
  route,         \* external: the speaker the router plays on
  switching,     \* external: the speaker it is switching to, or Nobody
  plays, requests,  \* what the clients have left to do
  stop_asked     \* stop() or an overflow since the speaker was last STOPPED

speakerVars == <<state_, bits, error, pause_state_, task, ring, events, dma>>
clientVars  == <<client, route, switching, plays, requests, stop_asked>>

SpeakerStates == {"STOPPED", "STARTING", "RUNNING", "STOPPING"}

SpeakerEventGroupBits ==
  {"COMMAND_START", "COMMAND_STOP", "COMMAND_STOP_GRACEFULLY", "TASK_RUNNING",
   "TASK_STOPPING", "TASK_STOPPED", "ERR_ESP_NO_MEM", "ERR_DROPPED_EVENT"}

(* The locals of run_speaker_task when its loop begins.                    *)
Task(pc) == [pc |-> pc, graceful |-> FALSE, underflow |-> TRUE, frames |-> 0, buf |-> FALSE]

Idle == [at |-> "idle", who |-> Nobody, seen |-> {}]

SpeakerInit ==
  /\ state_ = [s \in Speakers |-> "STOPPED"]
  /\ bits = [s \in Speakers |-> {}]
  /\ error = [s \in Speakers |-> "none"]
  /\ pause_state_ = [s \in Speakers |-> FALSE]
  /\ task = [s \in Speakers |-> Task("none")]
  /\ ring = [s \in Speakers |-> 0] /\ events = [s \in Speakers |-> 0] /\ dma = 0
  /\ main = Idle
  /\ client = "ready" /\ route \in Speakers /\ switching = Nobody
  /\ plays = MaxPlays /\ requests = MaxRequests
  /\ stop_asked = [s \in Speakers |-> FALSE]

SetBits(s, new)   == bits' = [bits EXCEPT ![s] = @ \union new]
SetState(s, v)    == state_' = [state_ EXCEPT ![s] = v]

-----------------------------------------------------------------------------
(* play() and start(), in the client's task.  start() tests state_, writes *)
(* it and sets COMMAND_START: the other threads may come in between.       *)

PlayStarts ==
  /\ client = "ready" /\ plays > 0 /\ switching = Nobody
  /\ state_[route] \notin {"RUNNING", "STARTING"} /\ error[route] = "none"
  /\ client' = "start"
  /\ UNCHANGED <<port, faults, speakerVars, main, route, switching, plays, requests, stop_asked>>

StartWritesState ==
  /\ client = "start"
  /\ SetState(route, "STARTING") /\ client' = "command"
  /\ UNCHANGED <<port, faults, bits, error, pause_state_, task, ring, events, dma, main, route,
                 switching, plays, requests, stop_asked>>

StartCommands ==
  /\ client = "command"
  /\ SetBits(route, {"COMMAND_START"}) /\ client' = "ready"
  /\ UNCHANGED <<port, faults, state_, error, pause_state_, task, ring, events, dma, main, route,
                 switching, plays, requests, stop_asked>>

(* The ring buffer belongs to the task; audio_ring_buffer_ is a weak       *)
(* reference to it.                                                        *)
RingValid(s) == task[s].pc \in {"run", "freeing"}

PlayWrites ==
  /\ client = "ready" /\ plays > 0 /\ switching = Nobody
  /\ state_[route] = "RUNNING" /\ RingValid(route) /\ ring[route] < RingSize
  /\ ring' = [ring EXCEPT ![route] = @ + 1] /\ plays' = plays - 1
  /\ UNCHANGED <<port, faults, state_, bits, error, pause_state_, task, events, dma, main,
                 client, route, switching, requests, stop_asked>>

(* has_buffered_data looks at the reference and then takes it.             *)
HasBufferedData ==
  \/ /\ client = "ready" /\ "has_buffered_data" \in Requests /\ requests > 0 /\ RingValid(route)
     /\ client' = "lock" /\ requests' = requests - 1
     /\ UNCHANGED <<port, faults, speakerVars, main, route, switching, plays, stop_asked>>
  \/ /\ client = "lock"
     /\ client' = "ready"
     /\ UNCHANGED <<port, faults, speakerVars, main, route, switching, plays, requests, stop_asked>>

ClientStep ==
  PlayStarts \/ StartWritesState \/ StartCommands \/ PlayWrites \/ HasBufferedData

-----------------------------------------------------------------------------
(* stop(), finish() and set_pause_state(), called from the main loop.      *)

Request(kind) ==
  main = Idle /\ kind \in Requests /\ requests > 0 /\ requests' = requests - 1

stop_(s, bit) ==
  IF state_[s] = "STOPPED" THEN UNCHANGED <<bits, stop_asked>>
  ELSE /\ SetBits(s, {bit})
       /\ stop_asked' = [stop_asked EXCEPT ![s] = TRUE]

UserStops ==
  /\ \/ Request("stop") /\ stop_(route, "COMMAND_STOP")
     \/ Request("finish") /\ stop_(route, "COMMAND_STOP_GRACEFULLY")
  /\ UNCHANGED <<port, faults, state_, error, pause_state_, task, ring, events, dma, main,
                 client, route, switching, plays>>

UserPauses ==
  /\ \/ Request("pause")
     \/ main = Idle /\ pause_state_[route] /\ UNCHANGED requests
  /\ pause_state_' = [pause_state_ EXCEPT ![route] = ~@]
  /\ UNCHANGED <<port, faults, state_, bits, error, task, ring, events, dma, main, client, route,
                 switching, plays, stop_asked>>

(* The router (external): it stops the old speaker, keeps play() calls     *)
(* away, and goes on to the new one when the old one is STOPPED.           *)
SwitchBegins ==
  /\ Request("switch") /\ switching = Nobody /\ client = "ready"
  /\ switching' \in Speakers \ {route}
  /\ stop_(route, "COMMAND_STOP")
  /\ UNCHANGED <<port, faults, state_, error, pause_state_, task, ring, events, dma, main,
                 client, route, plays>>

SwitchEnds ==
  /\ switching # Nobody /\ state_[route] = "STOPPED" /\ main = Idle
  /\ route' = switching /\ switching' = Nobody
  /\ UNCHANGED <<port, faults, speakerVars, main, client, plays, requests, stop_asked>>

-----------------------------------------------------------------------------
(* I2SAudioSpeakerBase::loop.  It reads the event group once; a loop that  *)
(* finds no bit does nothing.                                              *)

(* The task needs microseconds from TASK_STOPPING to TASK_STOPPED, the     *)
(* main loop milliseconds from one loop() to the next: at most one loop()  *)
(* falls between the two.                                                  *)
LoopDue(s) ==
  /\ bits[s] # {}
  /\ \/ "slow" \in Faults
     \/ task[s].pc \notin {"freeing", "failing"} \/ "TASK_STOPPING" \in bits[s]

LoopReads(s) ==
  /\ main = Idle /\ LoopDue(s)
  /\ main' = [at |-> "flags", who |-> s, seen |-> bits[s]]
  /\ UNCHANGED <<port, faults, speakerVars, clientVars>>

LoopFlags(s) ==
  /\ main.at = "flags" /\ main.who = s
  /\ bits' = [bits EXCEPT ![s] = @ \ (main.seen \intersect {"TASK_RUNNING", "TASK_STOPPING"})]
  /\ state_' = [state_ EXCEPT ![s] = IF "TASK_STOPPING" \in main.seen THEN "STOPPING"
                                     ELSE IF "TASK_RUNNING" \in main.seen THEN "RUNNING" ELSE @]
  /\ main' = [main EXCEPT !.at = IF "TASK_STOPPED" \in main.seen THEN "stopped" ELSE "start"]
  /\ UNCHANGED <<port, faults, error, pause_state_, task, ring, events, dma, clientVars>>

(* Mutant: the bits are cleared while the interrupt can still set them.    *)
ClearBeforeStop(s) ==
  /\ main.at = "stopped" /\ main.who = s
  /\ task' = [task EXCEPT ![s] = Task("none")]
  /\ IF task[s].pc # "none" THEN bits' = [bits EXCEPT ![s] = {}] /\ UNCHANGED <<port, main>>
     ELSE port' = stop_tx(port) /\ main' = [main EXCEPT !.at = "reset"] /\ UNCHANGED bits
  /\ dma' = IF port'.tx = "RUNNING" THEN dma ELSE 0
  /\ UNCHANGED <<faults, state_, error, pause_state_, ring, events, clientVars>>

(* TASK_STOPPED: the task is deleted, the channel stopped, which empties   *)
(* it, and all bits are cleared ...                                        *)
LoopStopped(s) ==
  /\ main.at = "stopped" /\ main.who = s
  /\ task' = [task EXCEPT ![s] = Task("none")]
  /\ port' = stop_tx(port)
  /\ dma' = IF port'.tx = "RUNNING" THEN dma ELSE 0
  /\ bits' = [bits EXCEPT ![s] = {}]
  /\ main' = [main EXCEPT !.at = "reset"]
  /\ UNCHANGED <<faults, state_, error, pause_state_, ring, events, clientVars>>

(* ... and then the state set.                                             *)
LoopReset(s) ==
  /\ main.at = "reset" /\ main.who = s
  /\ SetState(s, "STOPPED") /\ error' = [error EXCEPT ![s] = "none"]
  /\ stop_asked' = [stop_asked EXCEPT ![s] = FALSE]
  /\ main' = [main EXCEPT !.at = "start"]
  /\ UNCHANGED <<port, faults, bits, pause_state_, task, ring, events, dma, client, route,
                 switching, plays, requests>>

StartDue(s) == "COMMAND_START" \in main.seen /\ state_[s] = "STARTING"

(* Mutant: the channel goes on when there is no task.                      *)
TaskFailureKeepsChannel(s, p) ==
  \/ /\ task' = IF task[s].pc = "none" THEN [task EXCEPT ![s] = Task("begin")] ELSE task
     /\ port' = p /\ UNCHANGED <<state_, error, faults, stop_asked>>
  \/ /\ task[s].pc = "none" /\ "task" \in Faults /\ faults > 0 /\ faults' = faults - 1
     /\ port' = p
     /\ SetState(s, "STOPPED") /\ error' = [error EXCEPT ![s] = "lasting"]
     /\ stop_asked' = [stop_asked EXCEPT ![s] = FALSE]
     /\ UNCHANGED task

(* start_i2s_driver has reset the queue and started the channel; the task  *)
(* is created, unless there still is one or memory is short.               *)
DriverStarted(s, p) ==
  \/ /\ task' = IF task[s].pc = "none" THEN [task EXCEPT ![s] = Task("begin")] ELSE task
     /\ port' = p /\ UNCHANGED <<state_, error, faults, stop_asked>>
  \/ /\ task[s].pc = "none" /\ "task" \in Faults /\ faults > 0 /\ faults' = faults - 1
     /\ port' = stop_tx(p)
     /\ SetState(s, "STOPPED") /\ error' = [error EXCEPT ![s] = "lasting"]
     /\ stop_asked' = [stop_asked EXCEPT ![s] = FALSE]
     /\ UNCHANGED task

DriverFailed(s, r) ==
  /\ port' = r.port /\ faults' = faults - r.cost
  /\ SetState(s, "STOPPED") /\ error' = [error EXCEPT ![s] = "momentary"]
  /\ stop_asked' = [stop_asked EXCEPT ![s] = FALSE]
  /\ UNCHANGED task

(* The end of loop(): the speaker is started if that was asked for.  Only  *)
(* with the fault "race" does its test of state_ fall between the two      *)
(* instructions of a start(), on the other core, that write state_ and set *)
(* COMMAND_START.                                                          *)
LoopStart(s) ==
  /\ main.at = "start" /\ main.who = s
  /\ client = "command" /\ route = s => "race" \in Faults
  /\ main' = Idle
  /\ bits' = [bits EXCEPT ![s] = @ \ ((main.seen \intersect {"ERR_ESP_NO_MEM"}) \union
                                      (IF StartDue(s) THEN {"COMMAND_START"} ELSE {}))]
  /\ IF StartDue(s)
     THEN /\ events' = [events EXCEPT ![s] = 0]
          /\ \E r \in start_tx(port) :
               IF r.ok THEN DriverStarted(s, r.port) ELSE DriverFailed(s, r)
     ELSE UNCHANGED <<port, faults, state_, error, task, events, stop_asked>>
  /\ UNCHANGED <<pause_state_, ring, dma, client, route, switching, plays, requests>>

(* status_momentary_error ends after a second.                             *)
ErrorEnds(s) ==
  /\ error[s] = "momentary" /\ main = Idle
  /\ error' = [error EXCEPT ![s] = "none"]
  /\ UNCHANGED <<port, faults, state_, bits, pause_state_, task, ring, events, dma, main, clientVars>>

SpeakerLoop(s) ==
  LoopReads(s) \/ LoopFlags(s) \/ LoopStopped(s) \/ LoopReset(s) \/ LoopStart(s) \/ ErrorEnds(s)

-----------------------------------------------------------------------------
(* I2SAudioSpeaker::run_speaker_task.                                      *)

(* Mutant: the task begins with all bits cleared.                          *)
TaskClearsCommands(s) ==
  /\ task[s].pc = "begin"
  /\ task' = [task EXCEPT ![s].pc = "run"] /\ bits' = [bits EXCEPT ![s] = {"TASK_RUNNING"}]
  /\ ring' = [ring EXCEPT ![s] = 0]
  /\ UNCHANGED <<port, faults, state_, error, pause_state_, events, dma, main, clientVars>>

(* Its start: the buffers are allocated, or not.                           *)
TaskBegins(s) ==
  /\ task[s].pc = "begin"
  /\ \/ /\ task' = [task EXCEPT ![s].pc = "run"] /\ SetBits(s, {"TASK_RUNNING"})
        /\ ring' = [ring EXCEPT ![s] = 0] /\ UNCHANGED faults
     \/ /\ "buffer" \in Faults /\ faults > 0 /\ faults' = faults - 1
        /\ task' = [task EXCEPT ![s].pc = "failing"]
        /\ SetBits(s, {"ERR_ESP_NO_MEM", "TASK_STOPPING"})
        /\ UNCHANGED ring
  /\ UNCHANGED <<port, state_, error, pause_state_, events, dma, main, clientVars>>

(* The task leaves its loop: a command, or another stream.                 *)
TaskStops(s) ==
  /\ task[s].pc = "run"
  /\ \/ /\ "COMMAND_STOP" \in bits[s]
        /\ bits' = [bits EXCEPT ![s] = (@ \ {"COMMAND_STOP"}) \union {"TASK_STOPPING"}]
        /\ UNCHANGED requests
     \/ /\ "stream" \in Requests /\ requests > 0 /\ requests' = requests - 1
        /\ "COMMAND_STOP" \notin bits[s]
        /\ SetBits(s, {"TASK_STOPPING"})
  /\ task' = [task EXCEPT ![s].pc = "freeing"]
  /\ UNCHANGED <<port, faults, state_, error, pause_state_, ring, events, dma, main, client, route,
                 switching, plays, stop_asked>>

(* The locals after the commands were read and the event queue drained: an *)
(* event with nothing left to account for is an underflow.                 *)
Drained(s) ==
  [task[s] EXCEPT !.graceful  = @ \/ "COMMAND_STOP_GRACEFULLY" \in bits[s],
                  !.underflow = IF events[s] = 0 THEN @ ELSE task[s].frames < events[s],
                  !.frames    = IF @ < events[s] THEN 0 ELSE @ - events[s]]

(* The bits after that.                                                    *)
CommandsRead(s) == bits[s] \ {"COMMAND_STOP_GRACEFULLY"}

(* A buffer is sent: after an underflow the channel is disabled, loaded    *)
(* and enabled again, with the callback; otherwise it is written to, in    *)
(* vain while it is full.  Without a handle both fail.                     *)
Send(s, t) ==
  CASE t.underflow /\ port.tx_handle_ ->
         /\ dma' = 1 /\ events' = [events EXCEPT ![s] = 0]
         /\ port' = [port EXCEPT !.tx = "RUNNING", !.on_sent = s]
         /\ task' = [task EXCEPT ![s] = [t EXCEPT !.underflow = FALSE, !.buf = FALSE,
                                                  !.frames = @ + 1]]
    [] ~t.underflow /\ port.tx_handle_ /\ dma < DMA_BUFFERS_COUNT ->
         /\ dma' = dma + 1 /\ events' = [events EXCEPT ![s] = 0] /\ UNCHANGED port
         /\ task' = [task EXCEPT ![s] = [t EXCEPT !.buf = FALSE, !.frames = @ + 1]]
    [] OTHER ->
         /\ task' = [task EXCEPT ![s] = t] /\ events' = [events EXCEPT ![s] = 0]
         /\ UNCHANGED <<port, dma>>

(* Mutant: a finish does not wait for the data.                            *)
FinishAtOnce(s) ==
  LET t == [Drained(s) EXCEPT !.buf = @ \/ ring[s] > 0]
  IN  /\ task[s].pc = "run" /\ "COMMAND_STOP" \notin bits[s]
      /\ IF t.graceful
         THEN /\ task' = [task EXCEPT ![s] = [t EXCEPT !.pc = "freeing"]]
              /\ bits' = [bits EXCEPT ![s] = CommandsRead(s) \union {"TASK_STOPPING"}]
              /\ events' = [events EXCEPT ![s] = 0] /\ UNCHANGED <<ring, port, dma>>
         ELSE /\ bits' = [bits EXCEPT ![s] = CommandsRead(s)]
              /\ ring' = [ring EXCEPT ![s] = IF t.buf /\ ~task[s].buf THEN @ - 1 ELSE @]
              /\ Send(s, t)
      /\ UNCHANGED <<faults, state_, error, pause_state_, main, clientVars>>

(* An iteration of the loop.                                               *)
TaskIterates(s) ==
  LET t    == Drained(s)
      full == [t EXCEPT !.buf = @ \/ ring[s] > 0]
  IN  /\ task[s].pc = "run" /\ "COMMAND_STOP" \notin bits[s]
      /\ IF pause_state_[s]
         THEN /\ task' = [task EXCEPT ![s] = t] /\ events' = [events EXCEPT ![s] = 0]
              /\ bits' = [bits EXCEPT ![s] = CommandsRead(s)]
              /\ UNCHANGED <<ring, port, dma>>
         ELSE IF full.buf
         THEN /\ ring' = [ring EXCEPT ![s] = IF t.buf THEN @ ELSE @ - 1]
              /\ bits' = [bits EXCEPT ![s] = CommandsRead(s)]
              /\ Send(s, full)
         ELSE /\ LET ends == t.graceful /\ t.underflow
                 IN  /\ task' = [task EXCEPT ![s] = IF ends THEN [t EXCEPT !.pc = "freeing"] ELSE t]
                     /\ bits' = [bits EXCEPT ![s] =
                                   CommandsRead(s) \union IF ends THEN {"TASK_STOPPING"} ELSE {}]
              /\ events' = [events EXCEPT ![s] = 0] /\ UNCHANGED <<ring, port, dma>>
      /\ UNCHANGED <<faults, state_, error, pause_state_, main, clientVars>>

(* The buffers are freed, the ring buffer with them.                       *)
TaskFrees(s) ==
  /\ task[s].pc \in {"freeing", "failing"}
  /\ task' = [task EXCEPT ![s].pc = "stopped"] /\ ring' = [ring EXCEPT ![s] = 0]
  /\ SetBits(s, {"TASK_STOPPED"})
  /\ UNCHANGED <<port, faults, state_, error, pause_state_, events, dma, main, clientVars>>

TaskStep(s) == TaskBegins(s) \/ TaskStops(s) \/ TaskIterates(s) \/ TaskFrees(s)

-----------------------------------------------------------------------------
(* The channel has played a buffer, of data or of zeros, and i2s_on_sent_cb*)
(* reports it to the speaker that registered the callback.  A task, also   *)
(* one about to begin, empties its queue before that overflows.            *)
DmaSent ==
  /\ port.tx = "RUNNING"
  /\ dma' = IF dma = 0 THEN 0 ELSE dma - 1
  /\ LET s == port.on_sent
     IN  IF s = Nobody THEN UNCHANGED <<events, bits, stop_asked>>
         ELSE IF events[s] < I2S_EVENT_QUEUE_COUNT
         THEN events' = [events EXCEPT ![s] = @ + 1] /\ UNCHANGED <<bits, stop_asked>>
         ELSE /\ "slow" \in Faults \/ task[s].pc \notin {"begin", "run"}
              /\ SetBits(s, {"ERR_DROPPED_EVENT", "COMMAND_STOP"})
              /\ stop_asked' = [stop_asked EXCEPT ![s] = TRUE]
              /\ UNCHANGED events
  /\ UNCHANGED <<port, faults, state_, error, pause_state_, task, ring, main, client, route,
                 switching, plays, requests>>

SpeakerNext ==
  \/ ClientStep \/ UserStops \/ UserPauses \/ SwitchBegins \/ SwitchEnds \/ DmaSent
  \/ \E s \in Speakers : SpeakerLoop(s) \/ TaskStep(s)

SpeakerTypeOK ==
  /\ state_ \in [Speakers -> SpeakerStates]
  /\ bits \in [Speakers -> SUBSET SpeakerEventGroupBits]
  /\ error \in [Speakers -> {"none", "momentary", "lasting"}]
  /\ pause_state_ \in [Speakers -> BOOLEAN]
  /\ task \in [Speakers -> [pc : {"none", "begin", "run", "freeing", "failing", "stopped"},
                            graceful : BOOLEAN, underflow : BOOLEAN, buf : BOOLEAN,
                            frames : 0..DMA_BUFFERS_COUNT + I2S_EVENT_QUEUE_COUNT]]
  /\ ring \in [Speakers -> 0..RingSize]
  /\ events \in [Speakers -> 0..I2S_EVENT_QUEUE_COUNT] /\ dma \in 0..DMA_BUFFERS_COUNT
  /\ main \in [at : {"idle", "flags", "stopped", "reset", "start"},
               who : Speakers \union {Nobody}, seen : SUBSET SpeakerEventGroupBits]
  /\ client \in {"ready", "start", "command", "lock"}
  /\ route \in Speakers /\ switching \in Speakers \union {Nobody}
  /\ plays \in 0..MaxPlays /\ requests \in 0..MaxRequests
  /\ stop_asked \in [Speakers -> BOOLEAN]
=============================================================================
