------------------------ MODULE ResamplerMicrophone ------------------------
(***************************************************************************)
(* The resampling microphone, components/resampler/microphone: it hands    *)
(* what the source microphone records on to its listeners, through a task  *)
(* of its own where the sample rates differ.  Three threads: the main loop *)
(* (loop() and the listeners' start() and stop()), the resample task and   *)
(* the task of the source microphone, which runs the data callback.  The   *)
(* source, an enabled flag in front of a microphone, is external.          *)
(*                                                                         *)
(* loop() is one step: the bits it clears all at once are those of a task  *)
(* that has ended, and what is set after its read it finds the next time.  *)
(***************************************************************************)
EXTENDS Integers

CONSTANTS
  Resampling,       \* requires_resampling_(): fixed by the configuration
  MAX_LISTENERS,
  RingSize,         \* blocks the ring buffer holds
  Faults,           \* what may fail
  MaxListens, MaxFaults   \* bounds

ASSUME ResamplerAssumption ==
  /\ Resampling \subseteq BOOLEAN /\ Resampling # {}
  /\ MAX_LISTENERS \in Nat \ {0} /\ RingSize \in Nat \ {0}
  /\ Faults \subseteq {"create", "memory", "resample"}
  /\ MaxListens \in Nat /\ MaxFaults \in Nat

VARIABLES
  requires_resampling_,
  state_, bits, error,
  task, ring,           \* the resample task, the blocks in its ring buffer (NoRing: it is freed)
  source,               \* external: microphone_source_ is enabled
  listeners,            \* how many of active_listeners_semaphore_ are taken
  heard,                \* the listeners have been given the data of this session
  asked, listens, faults

vars == <<requires_resampling_, state_, bits, error, task, ring, source, listeners, heard, asked,
          listens, faults>>

States == {"STOPPED", "STARTING", "RUNNING", "STOPPING"}

ResamplingEventGroupBits == {"COMMAND_STOP", "TASK_RUNNING", "TASK_STOPPED"}

NoRing == -1

Init ==
  /\ requires_resampling_ \in Resampling
  /\ state_ = "STOPPED" /\ bits = {} /\ error = FALSE
  /\ task = "none" /\ ring = NoRing /\ source = FALSE /\ listeners = 0 /\ heard = FALSE
  /\ asked = 0 /\ listens = MaxListens /\ faults = MaxFaults

Fault(kind) == kind \in Faults /\ faults > 0 /\ faults' = faults - 1

-----------------------------------------------------------------------------
(* start() and stop() of a listener.                                       *)

ListenerStarts ==
  /\ listens > 0
  /\ listeners' = IF listeners < MAX_LISTENERS THEN listeners + 1 ELSE listeners
  /\ asked' = asked + 1 /\ listens' = listens - 1
  /\ heard' = FALSE
  /\ UNCHANGED <<requires_resampling_, state_, bits, error, task, ring, source, faults>>

ListenerStops ==
  /\ asked > 0
  /\ listeners' = IF state_ = "STOPPED" \/ listeners = 0 THEN listeners ELSE listeners - 1
  /\ asked' = asked - 1
  /\ UNCHANGED <<requires_resampling_, state_, bits, error, task, ring, source, heard, listens, faults>>

-----------------------------------------------------------------------------
(* Mutant: the handle of the ended task is kept.                           *)
ReportedKeepsHandle ==
  IF "TASK_STOPPED" \in bits
  THEN [state |-> "STOPPED", bits |-> {}, task |-> task, error |-> FALSE]
  ELSE [state |-> IF "TASK_RUNNING" \in bits THEN "RUNNING" ELSE state_,
        bits |-> bits \ {"TASK_RUNNING"}, task |-> task, error |-> error]

(* loop(): what the task has reported ...                                  *)
Reported ==
  IF "TASK_STOPPED" \in bits
  THEN [state |-> "STOPPED", bits |-> {}, task |-> "none", error |-> FALSE]
  ELSE [state |-> IF "TASK_RUNNING" \in bits THEN "RUNNING" ELSE state_,
        bits |-> bits \ {"TASK_RUNNING"}, task |-> task, error |-> error]

(* Mutant: the microphone is stopped in any state.                         *)
StopsAlways(state) ==
  IF listeners = 0 THEN "STOPPING" ELSE IF state = "STOPPED" THEN "STARTING" ELSE state

(* ... and what the semaphore asks for.                                    *)
Wanted(state) ==
  CASE listeners > 0 /\ state = "STOPPED" -> "STARTING"
    [] listeners = 0 /\ state = "RUNNING" -> "STOPPING"
    [] OTHER                              -> state

(* STATE_STARTING, in every loop() until the task runs.                    *)
Starting(c) ==
  IF c.error \/ (requires_resampling_ /\ c.task # "none")
  THEN state_' = "STARTING" /\ task' = c.task /\ error' = c.error /\ UNCHANGED <<source, faults>>
  ELSE IF requires_resampling_
  THEN /\ state_' = "STARTING"
       /\ \/ task' = "begin" /\ source' = TRUE /\ error' = FALSE /\ UNCHANGED faults
          \/ task' = "none" /\ error' = TRUE /\ Fault("create") /\ UNCHANGED source
  ELSE state_' = "RUNNING" /\ task' = c.task /\ error' = c.error /\ source' = TRUE /\ UNCHANGED faults

(* Mutant: only the task is stopped.                                       *)
StoppingKeepsSource(c) ==
  /\ state_' = IF requires_resampling_ THEN "STOPPING" ELSE "STOPPED"
  /\ bits' = IF requires_resampling_ THEN c.bits \union {"COMMAND_STOP"} ELSE c.bits
  /\ task' = c.task /\ error' = c.error /\ UNCHANGED <<source, faults>>

(* STATE_STOPPING, in every loop() until the task has ended.               *)
Stopping(c) ==
  /\ source' = FALSE
  /\ state_' = IF requires_resampling_ THEN "STOPPING" ELSE "STOPPED"
  /\ bits' = IF requires_resampling_ THEN c.bits \union {"COMMAND_STOP"} ELSE c.bits
  /\ task' = c.task /\ error' = c.error /\ UNCHANGED faults

Loop ==
  /\ LET c    == Reported
         next == Wanted(c.state)
     IN  CASE next = "STARTING" -> Starting(c) /\ bits' = c.bits
           [] next = "STOPPING" -> Stopping(c)
           [] OTHER -> /\ state_' = next /\ bits' = c.bits /\ task' = c.task /\ error' = c.error
                       /\ UNCHANGED <<source, faults>>
  /\ UNCHANGED <<requires_resampling_, ring, listeners, heard, asked, listens>>

(* status_momentary_error ends after a second.                             *)
ErrorEnds ==
  /\ error /\ error' = FALSE
  /\ UNCHANGED <<requires_resampling_, state_, bits, task, ring, source, listeners, heard, asked,
                 listens, faults>>

-----------------------------------------------------------------------------
(* The data callback, in the task of the source: without resampling the    *)
(* block goes to the listeners; with it, into the ring buffer, which is    *)
(* emptied first when it is full.  A weak reference guards the buffer.     *)
RingValid == ring # NoRing

SourceData ==
  /\ source /\ state_ # "STOPPED"
  /\ IF requires_resampling_
     THEN /\ ring' = IF ~RingValid THEN ring ELSE IF ring = RingSize THEN 1 ELSE ring + 1
          /\ UNCHANGED heard
     ELSE heard' = TRUE /\ UNCHANGED ring
  /\ UNCHANGED <<requires_resampling_, state_, bits, error, task, source, listeners, asked, listens, faults>>

-----------------------------------------------------------------------------
(* resample_task.                                                          *)

unchangedByTask == <<requires_resampling_, state_, error, source, listeners, asked, listens>>

(* Its buffers are allocated, or not: the error bits are read by nobody.   *)
TaskBegins ==
  /\ task = "begin"
  /\ \/ task' = "run" /\ bits' = bits \union {"TASK_RUNNING"} /\ ring' = 0 /\ UNCHANGED faults
     \/ task' = "ending" /\ ring' \in {NoRing, 0} /\ Fault("memory") /\ UNCHANGED bits
  /\ UNCHANGED <<unchangedByTask, heard>>

(* An iteration: a stop, a failure, or data for the listeners.             *)
TaskRuns ==
  /\ task = "run"
  /\ \/ "COMMAND_STOP" \in bits /\ task' = "ending" /\ UNCHANGED <<ring, heard, faults>>
     \/ /\ "COMMAND_STOP" \notin bits /\ ring > 0
        /\ ring' \in 0..(ring - 1) /\ heard' = TRUE /\ UNCHANGED <<task, faults>>
     \/ /\ "COMMAND_STOP" \notin bits /\ Fault("resample")
        /\ task' = "ending" /\ UNCHANGED <<ring, heard>>
  /\ UNCHANGED <<unchangedByTask, bits>>

TaskEnds ==
  /\ task = "ending"
  /\ task' = "stopped" /\ ring' = NoRing /\ bits' = bits \union {"TASK_STOPPED"}
  /\ UNCHANGED <<unchangedByTask, heard, faults>>

TaskStep == TaskBegins \/ TaskRuns \/ TaskEnds

Next ==
  ListenerStarts \/ ListenerStops \/ Loop \/ ErrorEnds \/ SourceData \/ TaskStep

Spec == Init /\ [][Next]_vars

-----------------------------------------------------------------------------
(* Every variable keeps its type; the ring buffer does not overflow.       *)
TypeOK ==
  /\ requires_resampling_ \in BOOLEAN /\ state_ \in States
  /\ bits \subseteq ResamplingEventGroupBits /\ error \in BOOLEAN
  /\ task \in {"none", "begin", "run", "ending", "stopped"} /\ ring \in {NoRing} \union 0..RingSize
  /\ source \in BOOLEAN /\ listeners \in 0..MAX_LISTENERS /\ heard \in BOOLEAN
  /\ asked \in 0..MaxListens /\ listens \in 0..MaxListens /\ faults \in 0..MaxFaults

(* The listeners of a running microphone get data: the source is on and,   *)
(* where one is needed, there is a task.  A stop command does not outlive  *)
(* the task it is for, and there is none while the microphone starts: the  *)
(* new task is not stopped by it.                                          *)
StateMatchesTask ==
  /\ state_ = "RUNNING" => source /\ (requires_resampling_ <=> task # "none")
  /\ "COMMAND_STOP" \in bits => task # "none" /\ state_ = "STOPPING"

(* What can hand data to the listeners is the resample task, or the source *)
(* where none is needed.                                                   *)
Recording == IF requires_resampling_ THEN task \in {"begin", "run", "ending"} ELSE source

AbstractMicrophone == INSTANCE Microphone WITH state <- state_, recording <- Recording

(* The resampling microphone keeps the promises of module Microphone: with *)
(* listeners loop() never lets it rest, without any it never starts it, and*)
(* nothing records for a stopped one, however start(), stop() and the end  *)
(* of the task fall between its calls.                                     *)
ImplementsMicrophone == AbstractMicrophone!Spec

(* A listener that stays is given data in the end, whatever failed before, *)
(* unless there are more listeners than places: the stop() of one that was *)
(* refused gives back the place of another.                                *)
ListenersAreHeard == asked > 0 ~> heard \/ asked = 0 \/ asked > listeners

-----------------------------------------------------------------------------
(* What comments of the code say.                                          *)

(* resampler_microphone.cpp:120: "Stop the microphone if all semaphores    *)
(* are returned": the source does not go on for nobody.                    *)
SourceStopsWithoutListeners == listeners = 0 ~> ~source \/ listeners > 0
=============================================================================
