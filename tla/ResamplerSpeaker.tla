-------------------------- MODULE ResamplerSpeaker --------------------------
(***************************************************************************)
(* The resampling speaker, components/resampler/speaker: it stands between *)
(* the media player and an input of the mixer (the output speaker, which   *)
(* is external) and, where the sample rates differ, converts in a task of  *)
(* its own.  The client's task sends commands and data, the main loop runs *)
(* loop(), which reads the event group twice, and the resample task moves  *)
(* data from the ring buffer to the output speaker.                        *)
(*                                                                         *)
(* Data is counted in blocks; state_start_ms_ is the flag late, set when   *)
(* STATE_TRANSITION_TIMEOUT_MS have passed since it was last assigned.     *)
(***************************************************************************)
EXTENDS Naturals, FiniteSets

CONSTANTS
  Resampling,     \* the values requires_resampling_() takes for the streams
  Faults,         \* what may fail
  Requests,       \* what the client may do besides play()
  RingSize,       \* blocks the ring buffer holds
  MaxPlays, MaxRequests, MaxFaults   \* bounds

ASSUME ResamplerAssumption ==
  /\ Resampling \subseteq BOOLEAN /\ Resampling # {}
  /\ Faults \subseteq {"create", "memory", "resample", "output", "slow"}
  /\ Requests \subseteq {"start", "stop", "finish", "pause"}
  /\ RingSize \in Nat \ {0}
  /\ MaxPlays \in Nat /\ MaxRequests \in Nat /\ MaxFaults \in Nat

VARIABLES
  state_, waiting_for_output_, late,
  bits,                \* the event group
  enabled, pending,    \* whether loop() is called; enable_loop_soon_any_context
  requires_resampling_,
  task, ring,          \* the resample task, the ring buffer it owns
  out,                 \* external: the output speaker
  in_loop,             \* the main loop is between the two reads of loop()
  client,              \* the client's task: the command it is sending
  plays, requests, faults

speakerVars == <<state_, waiting_for_output_, late, bits, enabled, pending, requires_resampling_, task,
                 ring, out, in_loop, client, plays, requests, faults>>

States == {"STOPPED", "STARTING", "RUNNING", "STOPPING"}

Commands == {"COMMAND_STOP", "COMMAND_START", "COMMAND_FINISH"}

Errors == {"ERR_ESP_NO_MEM", "ERR_ESP_FAIL"}

ResamplingEventGroupBits == Commands \union Errors \union {"TASK_COMMAND_STOP", "STATE_STOPPED"}

SpeakerInit ==
  /\ state_ = "STOPPED" /\ waiting_for_output_ = FALSE /\ late = FALSE
  /\ bits = {} /\ enabled = FALSE /\ pending = FALSE
  /\ requires_resampling_ \in Resampling
  /\ task = "none" /\ ring = 0
  /\ out = [state |-> "STOPPED", paused |-> FALSE, finishing |-> FALSE, data |-> FALSE]
  /\ in_loop = FALSE /\ client = "ready"
  /\ plays = MaxPlays /\ requests = MaxRequests /\ faults = MaxFaults

Fault(kind) == kind \in Faults /\ faults > 0 /\ faults' = faults - 1

-----------------------------------------------------------------------------
(* The output speaker.  Its play() starts it when it is stopped.           *)

OutStart(o) == IF o.state = "STOPPED" THEN [o EXCEPT !.state = "STARTING"] ELSE o

OutStop(o) ==
  IF o.state \in {"STARTING", "RUNNING"} THEN [o EXCEPT !.state = "STOPPING"] ELSE o

OutFinish(o) == IF o.state = "RUNNING" THEN [o EXCEPT !.finishing = TRUE] ELSE o

OutAccepts(o) == o.state = "RUNNING" /\ ~o.data

Stopped(o) == [o EXCEPT !.state = "STOPPED", !.finishing = FALSE, !.data = FALSE]

OutputStep ==
  /\ \/ out.state = "STARTING" /\ out' = [out EXCEPT !.state = "RUNNING"] /\ UNCHANGED faults
     \/ out.state = "STARTING" /\ out' = Stopped(out) /\ Fault("output")
     \/ out.state = "STOPPING" /\ out' = Stopped(out) /\ UNCHANGED faults
     \/ /\ out.state = "RUNNING" /\ ~out.paused /\ UNCHANGED faults
        /\ \/ out.data /\ out' = [out EXCEPT !.data = FALSE]
           \/ ~out.data /\ out.finishing /\ out' = Stopped(out)
  /\ UNCHANGED <<state_, waiting_for_output_, late, bits, enabled, pending, requires_resampling_,
                 task, ring, in_loop, client, plays, requests>>

-----------------------------------------------------------------------------
(* The client.  send_command_ asks for the loop and then sets the bit.     *)

Sends(command) ==
  /\ client = "ready" /\ client' = command
  /\ pending' = TRUE

unchangedByClient == <<state_, waiting_for_output_, late, enabled, task, in_loop, faults>>

CommandSent ==
  /\ client # "ready"
  /\ bits' = bits \union {client} /\ client' = "ready"
  /\ UNCHANGED <<unchangedByClient, pending, requires_resampling_, ring, out, plays, requests>>

(* play() on a stopped speaker, for which the client has chosen a stream.  *)
PlayStarts ==
  /\ plays > 0 /\ state_ = "STOPPED" /\ Sends("COMMAND_START")
  /\ requires_resampling_' \in IF bits = {} /\ ~in_loop THEN Resampling ELSE {requires_resampling_}
  /\ UNCHANGED <<unchangedByClient, bits, ring, out, plays, requests>>

(* ring_buffer_ is a weak reference to what the task owns.                 *)
RingValid == task = "run"

PlayWrites ==
  /\ client = "ready" /\ plays > 0
  /\ IF out.state = "RUNNING" /\ ~requires_resampling_
     THEN ~out.data /\ out' = [out EXCEPT !.data = TRUE] /\ UNCHANGED ring
     ELSE RingValid /\ ring < RingSize /\ ring' = ring + 1 /\ UNCHANGED out
  /\ plays' = plays - 1
  /\ UNCHANGED <<unchangedByClient, bits, pending, requires_resampling_, client, requests>>

Request(kind) == kind \in Requests /\ requests > 0 /\ requests' = requests - 1

UserCommands ==
  /\ \/ Request("start") /\ Sends("COMMAND_START")
     \/ Request("stop") /\ Sends("COMMAND_STOP")
     \/ Request("finish") /\ Sends("COMMAND_FINISH")
  /\ UNCHANGED <<unchangedByClient, bits, requires_resampling_, ring, out, plays>>

UserPauses ==
  /\ client = "ready" /\ (Request("pause") \/ (out.paused /\ UNCHANGED requests))
  /\ out' = [out EXCEPT !.paused = ~@]
  /\ UNCHANGED <<unchangedByClient, bits, pending, requires_resampling_, ring, client, plays>>

ClientStep == CommandSent \/ PlayStarts \/ PlayWrites

-----------------------------------------------------------------------------
(* loop().  The state of the component, as loop() changes it.              *)

Component == [state |-> state_, bits |-> bits, out |-> out, late |-> late,
              waiting |-> waiting_for_output_, task |-> task]

Assign(c) ==
  /\ state_' = c.state /\ bits' = c.bits /\ out' = c.out /\ late' = c.late
  /\ waiting_for_output_' = c.waiting /\ task' = c.task

enter_stopping_state_(c) ==
  [c EXCEPT !.state = "STOPPING", !.late = FALSE, !.out = OutStop(c.out),
            !.bits = IF c.task # "none" THEN @ \union {"TASK_COMMAND_STOP"} ELSE @]

(* Mutant: a stop is obeyed in STATE_RUNNING only.                         *)
StopOnlyRunning(c) ==
  IF c.state = "RUNNING"
  THEN enter_stopping_state_([c EXCEPT !.bits = @ \ Commands, !.waiting = FALSE])
  ELSE [c EXCEPT !.bits = @ \ Commands]

CommandStop(c) ==
  CASE c.state \in {"RUNNING", "STARTING"} ->
         enter_stopping_state_([c EXCEPT !.bits = @ \ Commands, !.waiting = FALSE])
    [] c.state = "STOPPED" -> [c EXCEPT !.bits = @ \ Commands]
    [] OTHER -> c

CommandFinish(c) ==
  CASE c.state = "RUNNING" -> [c EXCEPT !.bits = @ \ {"COMMAND_FINISH"}, !.out = OutFinish(@)]
    [] c.state = "STOPPED" -> [c EXCEPT !.bits = @ \ {"COMMAND_FINISH"}]
    [] OTHER -> c

CommandStart(c) ==
  CASE c.state = "STOPPED" -> [c EXCEPT !.bits = @ \ {"COMMAND_START"}, !.state = "STARTING"]
    [] c.state = "RUNNING" -> [c EXCEPT !.bits = @ \ {"COMMAND_START"}]
    [] OTHER -> c

(* The first half: the commands, by priority.  A loop() that would find    *)
(* and change nothing is left out.                                         *)
LoopCommands ==
  /\ ~in_loop /\ (enabled \/ pending)
  /\ in_loop' = TRUE /\ enabled' = TRUE /\ pending' = FALSE
  /\ Assign(CASE "COMMAND_STOP" \in bits   -> CommandStop(Component)
              [] "COMMAND_STOP" \notin bits /\ "COMMAND_FINISH" \in bits -> CommandFinish(Component)
              [] bits \intersect Commands = {"COMMAND_START"} -> CommandStart(Component)
              [] OTHER -> Component)
  /\ UNCHANGED <<requires_resampling_, ring, client, plays, requests, faults>>

(* The second half: what the task reports.  Its errors stop the speaker;   *)
(* when it has ended it is deleted and every bit cleared ...               *)
ErrorsSeen(c) ==
  IF c.bits \intersect Errors = {} THEN c
  ELSE enter_stopping_state_([c EXCEPT !.bits = @ \ Errors])

TaskSeen(c) == IF "STATE_STOPPED" \in bits THEN [c EXCEPT !.task = "none", !.bits = {}] ELSE c

(* start_(): the output speaker is started first, then the task.           *)
start_(c) ==
  [c EXCEPT !.out = OutStart(@), !.task = IF requires_resampling_ THEN "begin" ELSE @]

(* Mutant: it waits without a timeout.                                     *)
StartingWaits(c) ==
  /\ Assign(IF ~c.waiting THEN [start_(c) EXCEPT !.waiting = TRUE, !.late = FALSE]
            ELSE IF c.out.state = "RUNNING" THEN [c EXCEPT !.state = "RUNNING", !.waiting = FALSE]
            ELSE c)
  /\ UNCHANGED faults

(* ... then the step that the state asks for: STATE_STARTING calls start_()*)
(* once and waits for the output speaker,                                  *)
StartingStep(c) ==
  \/ /\ c.waiting /\ UNCHANGED faults
     /\ Assign(CASE c.out.state = "RUNNING" -> [c EXCEPT !.state = "RUNNING", !.waiting = FALSE]
                 [] c.out.state # "RUNNING" /\ c.late ->
                      enter_stopping_state_([c EXCEPT !.waiting = FALSE])
                 [] OTHER -> c)
  \/ /\ ~c.waiting /\ UNCHANGED faults
     /\ Assign([start_(c) EXCEPT !.waiting = TRUE, !.late = FALSE])
  \/ /\ ~c.waiting /\ requires_resampling_ /\ Fault("create")
     /\ Assign(enter_stopping_state_([c EXCEPT !.out = OutStart(@)]))

(* STATE_RUNNING watches the output speaker, and STATE_STOPPING waits for  *)
(* it and for the task.                                                    *)
RunningStep(c) == IF c.out.state = "STOPPED" THEN enter_stopping_state_(c) ELSE c

(* Mutant: it does not wait for the task.                                  *)
StoppingIgnoresTask(c) ==
  LET o == IF c.out.paused \/ c.late THEN OutStop(c.out) ELSE c.out
  IN  IF o.state = "STOPPED"
      THEN [c EXCEPT !.out = o, !.waiting = FALSE, !.state = "STOPPED"]
      ELSE [c EXCEPT !.out = o]

StoppingStep(c) ==
  LET o == IF c.out.paused \/ c.late THEN OutStop(c.out) ELSE c.out
  IN  IF o.state = "STOPPED" /\ c.task = "none"
      THEN [c EXCEPT !.out = o, !.waiting = FALSE, !.state = "STOPPED"]
      ELSE [c EXCEPT !.out = o]

LoopStates ==
  /\ in_loop /\ in_loop' = FALSE
  /\ LET c == TaskSeen(ErrorsSeen(Component))
     IN  /\ CASE c.state = "STARTING" -> StartingStep(c)
              [] c.state = "RUNNING"  -> Assign(RunningStep(c)) /\ UNCHANGED faults
              [] c.state = "STOPPING" -> Assign(StoppingStep(c)) /\ UNCHANGED faults
              [] c.state = "STOPPED"  -> Assign(c) /\ UNCHANGED faults
         /\ enabled' = ~(c.state = "STOPPED" /\ c.bits = {})
  /\ UNCHANGED <<pending, requires_resampling_, ring, client, plays, requests>>

(* STATE_TRANSITION_TIMEOUT_MS pass, in vain: the output speaker stays as  *)
(* it is.  One that merely needs longer is the fault "slow".               *)
Timeout ==
  /\ ~late /\ (state_ = "STOPPING" \/ waiting_for_output_)
  /\ late' = TRUE
  /\ \/ /\ out.state = "STOPPED" \/ (out.state = "RUNNING" /\ ~waiting_for_output_)
        /\ UNCHANGED faults
     \/ Fault("slow")
  /\ UNCHANGED <<state_, waiting_for_output_, bits, enabled, pending, requires_resampling_, task,
                 ring, out, in_loop, client, plays, requests>>

-----------------------------------------------------------------------------
(* resample_task.                                                          *)

unchangedByTask == <<state_, waiting_for_output_, late, enabled, pending, requires_resampling_,
                     in_loop, client, plays, requests>>

(* The resampler and the ring buffer are set up, or not.                   *)
TaskBegins ==
  /\ task = "begin" /\ ring' = 0
  /\ \/ task' = "run" /\ UNCHANGED <<bits, faults>>
     \/ task' = "ending" /\ bits' = bits \union {"ERR_ESP_NO_MEM"} /\ Fault("memory")
  /\ UNCHANGED <<unchangedByTask, out>>

(* An iteration: a stop, a failure, or a block for the output speaker,     *)
(* whose play() may have to start it first.                                *)
TaskRuns ==
  /\ task = "run"
  /\ IF "TASK_COMMAND_STOP" \in bits
     THEN task' = "ending" /\ UNCHANGED <<bits, out, ring, faults>>
     ELSE \/ /\ ring > 0 /\ UNCHANGED <<task, bits, faults>>
             /\ \/ ~OutAccepts(out) /\ out' = OutStart(out) /\ UNCHANGED ring
                \/ OutAccepts(out) /\ out' = [out EXCEPT !.data = TRUE] /\ ring' = ring - 1
          \/ /\ task' = "ending" /\ bits' = bits \union {"ERR_ESP_FAIL"} /\ Fault("resample")
             /\ UNCHANGED <<out, ring>>
  /\ UNCHANGED unchangedByTask

(* The resampler and the ring buffer are freed.                            *)
TaskEnds ==
  /\ task = "ending"
  /\ task' = "stopped" /\ ring' = 0 /\ bits' = bits \union {"STATE_STOPPED"}
  /\ UNCHANGED <<unchangedByTask, out, faults>>

TaskStep == TaskBegins \/ TaskRuns \/ TaskEnds

SpeakerNext ==
  \/ ClientStep \/ UserCommands \/ UserPauses \/ LoopCommands \/ LoopStates \/ Timeout
  \/ TaskStep \/ OutputStep

SpeakerSpec == SpeakerInit /\ [][SpeakerNext]_speakerVars

(* The main loop runs, time passes, both tasks and the output speaker make *)
(* progress, and a client that has data plays it.                          *)
FairSpeakerSpec ==
  /\ SpeakerSpec
  /\ WF_speakerVars(ClientStep) /\ WF_speakerVars(LoopCommands) /\ WF_speakerVars(LoopStates) /\ WF_speakerVars(Timeout)
  /\ WF_speakerVars(TaskStep) /\ WF_speakerVars(OutputStep)

-----------------------------------------------------------------------------
(* Every variable keeps its type; the ring buffer does not overflow.       *)
SpeakerTypeOK ==
  /\ state_ \in States /\ waiting_for_output_ \in BOOLEAN /\ late \in BOOLEAN
  /\ bits \subseteq ResamplingEventGroupBits
  /\ enabled \in BOOLEAN /\ pending \in BOOLEAN /\ requires_resampling_ \in BOOLEAN
  /\ task \in {"none", "begin", "run", "ending", "stopped"} /\ ring \in 0..RingSize
  /\ out \in [state : States, paused : BOOLEAN, finishing : BOOLEAN, data : BOOLEAN]
  /\ in_loop \in BOOLEAN /\ client \in Commands \union {"ready"}
  /\ plays \in 0..MaxPlays /\ requests \in 0..MaxRequests /\ faults \in 0..MaxFaults

(* STATE_STOPPED is reported only when the task is deleted and the output  *)
(* speaker stopped, although the task may restart the output speaker while *)
(* the resampler is stopping; STATE_RUNNING only with a task, so that      *)
(* play() finds a ring buffer, however the task ends.  A stop command for  *)
(* the task does not outlive it: the next task is not stopped by it.       *)
StateMatchesTask ==
  /\ state_ = "STOPPED" => task = "none" /\ out.state = "STOPPED"
  /\ state_ = "RUNNING" /\ requires_resampling_ => task # "none"
  /\ task = "none" => "TASK_COMMAND_STOP" \notin bits

(* What a client goes on playing is accepted in the end, whatever commands *)
(* come in between and however often the start fails, unless it is paused  *)
(* for good.                                                               *)
EverythingAccepted == <>(plays = 0) \/ <>[](out.paused)

(* A stop is obeyed, the speaker is at rest at some time after it, and a   *)
(* speaker that stops for any other reason becomes STOPPED too.            *)
StopsInTheEnd == client = "COMMAND_STOP" \/ state_ = "STOPPING" ~> state_ = "STOPPED"

-----------------------------------------------------------------------------
(* What comments of the code say.                                          *)

(* resampler_speaker.cpp:120, on COMMAND_START: "Leave bit set if          *)
(* transitioning states - will be processed once state allows".            *)
StartIsKept ==
  [][("COMMAND_START" \in bits /\ state_ = "STOPPING" /\ bits \intersect {"COMMAND_STOP"} = {})
     => "COMMAND_START" \in bits' \/ state_' = "STARTING"]_speakerVars

(* resampler_speaker.cpp:210: "No pending events, disable loop to save CPU *)
(* cycles": a disabled loop has nothing to do.                             *)
NothingPendingWhenDisabled == ~enabled /\ ~pending => bits = {}
=============================================================================
