----------------------- MODULE MicrophoneChain_proofs -----------------------
(***************************************************************************)
(* Proofs about the resampling microphone and its source: the resampling   *)
(* microphone implements module Microphone, and the raw microphone knows of*)
(* its listener exactly while that is enabled.  Both hold for any number of*)
(* listeners, any ring buffer and any choice of failures.                  *)
(***************************************************************************)
EXTENDS MicrophoneChain, TLAPS

(* Where the resample task is, seen from the states of loop(): the relation*)
(* between task, event bits and state that makes the refinement inductive. *)
TaskInv ==
  /\ "TASK_STOPPED" \in bits <=> task = "stopped"
  /\ "TASK_RUNNING" \in bits => state_ = "STARTING" /\ task # "begin"
  /\ "COMMAND_STOP" \in bits => state_ = "STOPPING"
  /\ task = "none" => bits = {}
  /\ task = "begin" => state_ = "STARTING"
  /\ state_ = "STOPPED" => task = "none"
  /\ requires_resampling_ /\ state_ \in {"RUNNING", "STOPPING"} => task # "none"

(* The source is enabled while the microphone runs, and without a resample *)
(* task only then.                                                         *)
SourceInv ==
  /\ task # "none" /\ state_ \in {"STARTING", "RUNNING"} => source
  /\ ~requires_resampling_ => /\ task = "none" /\ ~error /\ state_ \in {"STOPPED", "RUNNING"}
                              /\ source <=> state_ = "RUNNING"

ResInv == TypeOK /\ asked + listens =< MaxListens /\ TaskInv /\ SourceInv

-----------------------------------------------------------------------------
(* ResInv holds at the start.                                              *)
LEMMA ResInvInit == Init => ResInv
  <1> SUFFICES ASSUME Init PROVE ResInv
    OBVIOUS
  <1>1. TypeOK
    <2>1. requires_resampling_ \in BOOLEAN
      BY ResamplerAssumption DEF Init
    <2>2. bits \subseteq ResamplingEventGroupBits /\ ring \in {NoRing} \union 0..RingSize
      BY DEF Init
    <2>3. /\ listeners \in 0..MAX_LISTENERS /\ asked \in 0..MaxListens
          /\ listens \in 0..MaxListens /\ faults \in 0..MaxFaults
      BY ResamplerAssumption DEF Init
    <2> QED BY <2>1, <2>2, <2>3, Zenon DEF Init, TypeOK, States
  <1>2. asked + listens =< MaxListens
    BY ResamplerAssumption DEF Init
  <1>3. TaskInv /\ SourceInv
    BY DEF Init, TaskInv, SourceInv
  <1> QED BY <1>1, <1>2, <1>3 DEF ResInv

(* What loop() makes of the bits, once and for all.                        *)
LEMMA ReportedFacts ==
  ASSUME ResInv
  PROVE  /\ "TASK_STOPPED" \in bits =>
              Reported = [state |-> "STOPPED", bits |-> {}, task |-> "none", error |-> FALSE]
         /\ "TASK_STOPPED" \notin bits /\ "TASK_RUNNING" \in bits =>
              /\ Reported = [state |-> "RUNNING", bits |-> {}, task |-> task, error |-> error]
              /\ state_ = "STARTING" /\ task \in {"run", "ending"}
         /\ "TASK_STOPPED" \notin bits /\ "TASK_RUNNING" \notin bits =>
              Reported = [state |-> state_, bits |-> bits, task |-> task, error |-> error]
  <1>1. bits \subseteq {"COMMAND_STOP", "TASK_RUNNING", "TASK_STOPPED"}
    BY DEF ResInv, TypeOK, ResamplingEventGroupBits
  <1>2. "TASK_RUNNING" \in bits => "COMMAND_STOP" \notin bits
    BY DEF ResInv, TaskInv
  <1>3. "TASK_RUNNING" \in bits /\ "TASK_STOPPED" \notin bits => bits \ {"TASK_RUNNING"} = {}
    BY <1>1, <1>2
  <1>4. "TASK_RUNNING" \notin bits => bits \ {"TASK_RUNNING"} = bits
    OBVIOUS
  <1>5. "TASK_RUNNING" \in bits /\ "TASK_STOPPED" \notin bits =>
          state_ = "STARTING" /\ task \in {"run", "ending"}
    BY DEF ResInv, TypeOK, TaskInv
  <1> QED BY <1>3, <1>4, <1>5 DEF Reported

-----------------------------------------------------------------------------
(* The outcomes of a call of loop().                                       *)

Quiet == "TASK_STOPPED" \notin bits /\ "TASK_RUNNING" \notin bits

Beginning == listeners > 0 \/ state_ = "STARTING"

CreatesTask ==
  /\ requires_resampling_ /\ Beginning /\ task \in {"none", "stopped"}
  /\ state_' = "STARTING" /\ bits' = {} /\ task' = "begin" /\ source' = TRUE /\ error' = FALSE
  /\ faults' = faults

CreateFails ==
  /\ requires_resampling_ /\ Beginning /\ task \in {"none", "stopped"}
  /\ state_' = "STARTING" /\ bits' = {} /\ task' = "none" /\ source' = source /\ error' = TRUE
  /\ faults > 0 /\ faults' = faults - 1

Waits ==
  /\ requires_resampling_ /\ Beginning /\ Quiet /\ state_ \in {"STOPPED", "STARTING"}
  /\ state_' = "STARTING" /\ bits' = bits /\ task' = task /\ source' = source /\ error' = error
  /\ faults' = faults

RunsAtOnce ==
  /\ ~requires_resampling_ /\ listeners > 0 /\ state_ = "STOPPED"
  /\ state_' = "RUNNING" /\ bits' = bits /\ task' = task /\ source' = TRUE /\ error' = error
  /\ faults' = faults

StopsTask ==
  /\ requires_resampling_ /\ task \in {"run", "ending"}
  /\ state_ = "STOPPING" \/ (listeners = 0 /\ state_ \in {"STARTING", "RUNNING"})
  /\ state_' = "STOPPING" /\ bits' = {"COMMAND_STOP"} /\ task' = task /\ source' = FALSE
  /\ error' = error /\ faults' = faults

StopsAtOnce ==
  /\ ~requires_resampling_ /\ listeners = 0 /\ state_ = "RUNNING"
  /\ state_' = "STOPPED" /\ bits' = bits /\ task' = task /\ source' = FALSE /\ error' = error
  /\ faults' = faults

TaskWasRunning ==
  /\ requires_resampling_ /\ listeners > 0 /\ state_ = "STARTING" /\ task \in {"run", "ending"}
  /\ state_' = "RUNNING" /\ bits' = {} /\ task' = task /\ source' = source /\ error' = error
  /\ faults' = faults

TaskHadEnded ==
  /\ requires_resampling_ /\ listeners = 0 /\ task = "stopped"
  /\ state_' = "STOPPED" /\ bits' = {} /\ task' = "none" /\ source' = source /\ error' = FALSE
  /\ faults' = faults

GoesOn ==
  /\ Quiet
  /\ (listeners > 0 /\ state_ = "RUNNING") \/ (listeners = 0 /\ state_ = "STOPPED")
  /\ state_' = state_ /\ bits' = bits /\ task' = task /\ source' = source /\ error' = error
  /\ faults' = faults

Outcome ==
  \/ CreatesTask \/ CreateFails \/ Waits \/ RunsAtOnce \/ StopsTask \/ StopsAtOnce
  \/ TaskWasRunning \/ TaskHadEnded \/ GoesOn

(* Every call of loop() has one of the outcomes.                           *)
LEMMA LoopOutcome ==
  ASSUME ResInv, Loop
  PROVE  Outcome
  <1> DEFINE c == Reported
             next == Wanted(c.state)
  <1> USE DEF ResInv
  <1>t. /\ listeners \in Nat /\ state_ \in States /\ requires_resampling_ \in BOOLEAN /\ error \in BOOLEAN
        /\ task \in {"none", "begin", "run", "ending", "stopped"}
        /\ bits \subseteq {"COMMAND_STOP", "TASK_RUNNING", "TASK_STOPPED"}
    BY ResamplerAssumption DEF TypeOK, ResamplingEventGroupBits
  <1>s. next = "STARTING" => Starting(c) /\ bits' = c.bits
    BY DEF Loop
  <1>p. next = "STOPPING" => Stopping(c)
    BY DEF Loop
  <1>o. next \notin {"STARTING", "STOPPING"} =>
          /\ state_' = next /\ bits' = c.bits /\ task' = c.task /\ error' = c.error
          /\ source' = source /\ faults' = faults
    BY DEF Loop
  <1>1. CASE "TASK_STOPPED" \in bits
    <2>1. c = [state |-> "STOPPED", bits |-> {}, task |-> "none", error |-> FALSE]
      BY <1>1, ReportedFacts
    <2>2. task = "stopped" /\ requires_resampling_
      BY <1>1, <1>t DEF TaskInv, SourceInv
    <2>3. CASE listeners > 0
      <3>1. next = "STARTING"
        BY <2>1, <2>3 DEF Wanted
      <3>2. Starting(c) /\ bits' = {}
        BY <3>1, <1>s, <2>1
      <3>3. CreatesTask \/ CreateFails
        BY <3>2, <2>1, <2>2, <2>3 DEF Starting, CreatesTask, CreateFails, Beginning, Fault
      <3> QED BY <3>3 DEF Outcome
    <2>4. CASE listeners = 0
      <3>1. next = "STOPPED"
        BY <2>1, <2>4 DEF Wanted
      <3>2. TaskHadEnded
        BY <3>1, <1>o, <2>1, <2>2, <2>4 DEF TaskHadEnded
      <3> QED BY <3>2 DEF Outcome
    <2> QED BY <2>3, <2>4, <1>t
  <1>2. CASE "TASK_STOPPED" \notin bits /\ "TASK_RUNNING" \in bits
    <2>1. /\ c = [state |-> "RUNNING", bits |-> {}, task |-> task, error |-> error]
          /\ state_ = "STARTING" /\ task \in {"run", "ending"}
      BY <1>2, ReportedFacts
    <2>2. requires_resampling_
      BY <2>1, <1>t DEF SourceInv
    <2>3. CASE listeners > 0
      <3>1. next = "RUNNING"
        BY <2>1, <2>3 DEF Wanted
      <3>2. TaskWasRunning
        BY <3>1, <1>o, <2>1, <2>2, <2>3 DEF TaskWasRunning
      <3> QED BY <3>2 DEF Outcome
    <2>4. CASE listeners = 0
      <3>1. next = "STOPPING"
        BY <2>1, <2>4 DEF Wanted
      <3>2. StopsTask
        BY <3>1, <1>p, <2>1, <2>2, <2>4 DEF StopsTask, Stopping
      <3> QED BY <3>2 DEF Outcome
    <2> QED BY <2>3, <2>4, <1>t
  <1>3. CASE Quiet
    <2>1. c = [state |-> state_, bits |-> bits, task |-> task, error |-> error]
      BY <1>3, ReportedFacts DEF Quiet
    <2>2. task # "stopped"
      BY <1>3 DEF Quiet, TaskInv
    <2>3. CASE state_ = "STOPPED" /\ listeners = 0
      <3>1. next = "STOPPED"
        BY <2>1, <2>3 DEF Wanted
      <3>2. GoesOn
        BY <3>1, <1>o, <2>1, <2>3, <1>3 DEF GoesOn
      <3> QED BY <3>2 DEF Outcome
    <2>4. CASE state_ = "STARTING" \/ (state_ = "STOPPED" /\ listeners > 0)
      <3>1. next = "STARTING"
        BY <2>1, <2>4, <1>t DEF Wanted
      <3>2. Starting(c) /\ bits' = bits
        BY <3>1, <1>s, <2>1
      <3>3. Beginning
        BY <2>4 DEF Beginning
      <3>4. CASE ~requires_resampling_
        <4>1. ~error /\ state_ = "STOPPED" /\ listeners > 0
          BY <3>4, <2>4 DEF SourceInv
        <4>2. RunsAtOnce
          BY <4>1, <3>4, <3>2, <2>1 DEF Starting, RunsAtOnce
        <4> QED BY <4>2 DEF Outcome
      <3>5. CASE requires_resampling_ /\ (error \/ task # "none")
        <4>1. Waits
          BY <3>5, <3>3, <3>2, <2>1, <2>4, <1>3 DEF Starting, Waits
        <4> QED BY <4>1 DEF Outcome
      <3>6. CASE requires_resampling_ /\ ~error /\ task = "none"
        <4>1. bits = {}
          BY <3>6 DEF TaskInv
        <4>2. CreatesTask \/ CreateFails
          BY <4>1, <3>6, <3>3, <3>2, <2>1 DEF Starting, CreatesTask, CreateFails, Fault
        <4> QED BY <4>2 DEF Outcome
      <3> QED BY <3>4, <3>5, <3>6
    <2>5. CASE state_ = "RUNNING" /\ listeners > 0
      <3>1. next = "RUNNING"
        BY <2>1, <2>5 DEF Wanted
      <3>2. GoesOn
        BY <3>1, <1>o, <2>1, <2>5, <1>3 DEF GoesOn
      <3> QED BY <3>2 DEF Outcome
    <2>6. CASE state_ = "STOPPING" \/ (state_ = "RUNNING" /\ listeners = 0)
      <3>1. next = "STOPPING"
        BY <2>1, <2>6, <1>t DEF Wanted
      <3>2. Stopping(c)
        BY <3>1, <1>p
      <3>3. CASE ~requires_resampling_
        <4>1. state_ = "RUNNING" /\ listeners = 0
          BY <3>3, <2>6 DEF SourceInv
        <4>2. StopsAtOnce
          BY <4>1, <3>3, <3>2, <2>1 DEF Stopping, StopsAtOnce
        <4> QED BY <4>2 DEF Outcome
      <3>4. CASE requires_resampling_
        <4>1. task \in {"run", "ending"}
          BY <3>4, <2>6, <2>2, <1>t DEF TaskInv
        <4>2. bits \union {"COMMAND_STOP"} = {"COMMAND_STOP"}
          BY <1>t, <1>3, Zenon DEF Quiet
        <4>3. StopsTask
          BY <4>1, <4>2, <3>4, <3>2, <2>1, <2>6 DEF Stopping, StopsTask
        <4> QED BY <4>3 DEF Outcome
      <3> QED BY <3>3, <3>4
    <2> QED BY <2>3, <2>4, <2>5, <2>6, <1>t DEF States
  <1> QED BY <1>1, <1>2, <1>3 DEF Quiet

-----------------------------------------------------------------------------
(* Every step keeps ResInv: loop() outcome by outcome, ...                 *)
LEMMA LoopKeepsInv ==
  ASSUME ResInv, Loop
  PROVE  ResInv'
  <1>o. Outcome
    BY LoopOutcome
  <1>u. UNCHANGED <<requires_resampling_, ring, listeners, heard, asked, listens>>
    BY DEF Loop
  <1>t. /\ requires_resampling_ \in BOOLEAN /\ error \in BOOLEAN /\ source \in BOOLEAN /\ faults \in 0..MaxFaults
        /\ state_ \in States /\ bits \subseteq ResamplingEventGroupBits
        /\ task \in {"none", "begin", "run", "ending", "stopped"}
    BY DEF ResInv, TypeOK
  <1>1. TypeOK'
    <2>1. bits' \in {bits, {}, {"COMMAND_STOP"}}
      BY <1>o DEF Outcome, CreatesTask, CreateFails, Waits, RunsAtOnce, StopsTask, StopsAtOnce,
                  TaskWasRunning, TaskHadEnded, GoesOn
    <2>2. bits' \subseteq ResamplingEventGroupBits
      BY <2>1, <1>t DEF ResamplingEventGroupBits
    <2>3. state_' \in States /\ error' \in BOOLEAN /\ source' \in BOOLEAN
      BY <1>o, <1>t, Zenon DEF Outcome, CreatesTask, CreateFails, Waits, RunsAtOnce, StopsTask, StopsAtOnce,
                  TaskWasRunning, TaskHadEnded, GoesOn, States
    <2>4. task' \in {"none", "begin", task}
      BY <1>o DEF Outcome, CreatesTask, CreateFails, Waits, RunsAtOnce, StopsTask, StopsAtOnce,
                  TaskWasRunning, TaskHadEnded, GoesOn
    <2>5. faults' \in 0..MaxFaults
      <3>1. faults' = faults \/ (faults > 0 /\ faults' = faults - 1)
        BY <1>o DEF Outcome, CreatesTask, CreateFails, Waits, RunsAtOnce, StopsTask, StopsAtOnce,
                    TaskWasRunning, TaskHadEnded, GoesOn
      <3> QED BY <3>1, <1>t, ResamplerAssumption
    <2> QED BY <2>2, <2>3, <2>4, <2>5, <1>u, <1>t DEF ResInv, TypeOK
  <1>2. (asked + listens =< MaxListens)'
    BY <1>u DEF ResInv
  <1>3. TaskInv'
    <2>1. CASE CreatesTask \/ CreateFails \/ TaskHadEnded
      BY <2>1, <1>u DEF CreatesTask, CreateFails, TaskHadEnded, TaskInv
    <2>2. CASE StopsTask \/ TaskWasRunning
      BY <2>2, <1>u DEF StopsTask, TaskWasRunning, TaskInv
    <2>3. CASE Waits
      BY <2>3, <1>u DEF Waits, Quiet, TaskInv, ResInv
    <2>4. CASE RunsAtOnce \/ StopsAtOnce
      <3>1. task = "none" /\ bits = {} /\ ~requires_resampling_
        BY <2>4 DEF RunsAtOnce, StopsAtOnce, ResInv, SourceInv, TaskInv
      <3> QED BY <3>1, <2>4, <1>u DEF RunsAtOnce, StopsAtOnce, TaskInv
    <2>5. CASE GoesOn
      BY <2>5, <1>u DEF GoesOn, TaskInv, ResInv
    <2> QED BY <1>o, <2>1, <2>2, <2>3, <2>4, <2>5 DEF Outcome
  <1>4. SourceInv'
    <2>1. CASE CreatesTask \/ CreateFails \/ TaskHadEnded
      BY <2>1, <1>u DEF CreatesTask, CreateFails, TaskHadEnded, SourceInv
    <2>2. CASE StopsTask \/ TaskWasRunning
      BY <2>2, <1>u DEF StopsTask, TaskWasRunning, SourceInv, ResInv
    <2>3. CASE Waits
      BY <2>3, <1>u DEF Waits, SourceInv, TaskInv, ResInv
    <2>4. CASE RunsAtOnce \/ StopsAtOnce
      BY <2>4, <1>u DEF RunsAtOnce, StopsAtOnce, SourceInv, ResInv
    <2>5. CASE GoesOn
      BY <2>5, <1>u DEF GoesOn, SourceInv, ResInv
    <2> QED BY <1>o, <2>1, <2>2, <2>3, <2>4, <2>5 DEF Outcome
  <1> QED BY <1>1, <1>2, <1>3, <1>4 DEF ResInv

(* ... and every other step action by action.                              *)
LEMMA ResInvStep ==
  ASSUME ResInv, [Next]_vars
  PROVE  ResInv'
  <1>t. /\ listeners \in 0..MAX_LISTENERS /\ asked \in 0..MaxListens /\ listens \in 0..MaxListens
        /\ faults \in 0..MaxFaults /\ ring \in {NoRing} \union 0..RingSize
        /\ asked + listens =< MaxListens /\ heard \in BOOLEAN
    BY DEF ResInv, TypeOK
  <1>1. CASE ListenerStarts
    <2>1. /\ listeners' \in 0..MAX_LISTENERS /\ asked' \in 0..MaxListens /\ listens' \in 0..MaxListens
          /\ asked' + listens' =< MaxListens
      BY <1>1, <1>t, ResamplerAssumption DEF ListenerStarts
    <2> QED BY <2>1, <1>1, Zenon DEF ListenerStarts, ResInv, TypeOK, TaskInv, SourceInv
  <1>2. CASE ListenerStops
    <2>1. /\ listeners' \in 0..MAX_LISTENERS /\ asked' \in 0..MaxListens
          /\ asked' + listens =< MaxListens
      BY <1>2, <1>t, ResamplerAssumption DEF ListenerStops
    <2> QED BY <2>1, <1>2 DEF ListenerStops, ResInv, TypeOK, TaskInv, SourceInv
  <1>3. CASE Loop
    BY <1>3, LoopKeepsInv
  <1>4. CASE ErrorEnds
    BY <1>4, Zenon DEF ErrorEnds, ResInv, TypeOK, TaskInv, SourceInv
  <1>5. CASE SourceData
    <2>0. ring' = ring \/ (ring # NoRing /\ ring' = IF ring = RingSize THEN 1 ELSE ring + 1)
      BY <1>5 DEF SourceData, RingValid
    <2>1. ring' \in {NoRing} \union 0..RingSize
      BY <2>0, <1>t, ResamplerAssumption DEF NoRing
    <2>2. heard' \in BOOLEAN
      BY <1>5, <1>t, Zenon DEF SourceData
    <2> QED BY <2>1, <2>2, <1>5 DEF SourceData, ResInv, TypeOK, TaskInv, SourceInv
  <1>6. CASE TaskStep
    <2>0. requires_resampling_
      BY <1>6 DEF TaskStep, TaskBegins, TaskRuns, TaskEnds, ResInv, SourceInv, TypeOK
    <2>u. UNCHANGED <<requires_resampling_, state_, error, source, listeners, asked, listens>>
      BY <1>6 DEF TaskStep, TaskBegins, TaskRuns, TaskEnds, unchangedByTask
    <2>1. /\ ring' \in {NoRing} \union 0..RingSize /\ heard' \in BOOLEAN /\ faults' \in 0..MaxFaults
      <3>1. CASE TaskBegins
        BY <3>1, <1>t, ResamplerAssumption DEF TaskBegins, Fault
      <3>2. CASE TaskRuns
        <4>1. ring' = ring \/ (ring > 0 /\ ring' \in 0..(ring - 1))
          BY <3>2 DEF TaskRuns
        <4>2. ring' \in {NoRing} \union 0..RingSize
          BY <4>1, <1>t, ResamplerAssumption DEF NoRing
        <4>3. faults' \in 0..MaxFaults
          BY <3>2, <1>t, ResamplerAssumption DEF TaskRuns, Fault
        <4>4. heard' \in BOOLEAN
          BY <3>2, <1>t, Zenon DEF TaskRuns
        <4> QED BY <4>2, <4>3, <4>4
      <3>3. CASE TaskEnds
        BY <3>3, <1>t DEF TaskEnds
      <3> QED BY <1>6, <3>1, <3>2, <3>3 DEF TaskStep
    <2>2. /\ task' \in {"none", "begin", "run", "ending", "stopped"}
          /\ bits' \subseteq ResamplingEventGroupBits
      BY <1>6, Zenon DEF TaskStep, TaskBegins, TaskRuns, TaskEnds, ResInv, TypeOK, ResamplingEventGroupBits
    <2>3. TaskInv'
      <3>1. CASE TaskBegins
        BY <3>1, <2>u DEF TaskBegins, TaskInv, ResInv
      <3>2. CASE TaskRuns
        BY <3>2, <2>u DEF TaskRuns, TaskInv, ResInv
      <3>3. CASE TaskEnds
        BY <3>3, <2>u DEF TaskEnds, TaskInv, ResInv
      <3> QED BY <1>6, <3>1, <3>2, <3>3 DEF TaskStep
    <2>4. SourceInv'
      BY <1>6, <2>0, <2>u DEF TaskStep, TaskBegins, TaskRuns, TaskEnds, SourceInv, ResInv
    <2> QED BY <2>1, <2>2, <2>3, <2>4, <2>u DEF ResInv, TypeOK
  <1>7. CASE UNCHANGED vars
    BY <1>7 DEF vars, ResInv, TypeOK, TaskInv, SourceInv
  <1> QED BY <1>1, <1>2, <1>3, <1>4, <1>5, <1>6, <1>7 DEF Next

(* What the module states about the resampling microphone on its own.      *)
LEMMA ResInvImplies == ResInv => StateMatchesTask
  <1> SUFFICES ASSUME ResInv PROVE StateMatchesTask
    OBVIOUS
  <1>1. state_ = "RUNNING" => source /\ (requires_resampling_ <=> task # "none")
    BY DEF ResInv, TaskInv, SourceInv, TypeOK
  <1>2. "COMMAND_STOP" \in bits => task # "none" /\ state_ = "STOPPING"
    BY DEF ResInv, TaskInv
  <1> QED BY <1>1, <1>2 DEF StateMatchesTask

-----------------------------------------------------------------------------
(* The refinement, step by step: loop() is a Loop of module Microphone, ...*)
LEMMA LoopImplements ==
  ASSUME ResInv, Loop
  PROVE  AbstractMicrophone!Loop
  <1>o. Outcome
    BY LoopOutcome
  <1>u. requires_resampling_' = requires_resampling_ /\ listeners' = listeners
    BY DEF Loop
  <1>t. /\ requires_resampling_ \in BOOLEAN /\ listeners \in Nat /\ source \in BOOLEAN
        /\ state_ \in States
    BY ResamplerAssumption DEF ResInv, TypeOK
  <1>i. ResInv'
    BY LoopKeepsInv
  <1>1. state_' \in AbstractMicrophone!MicStates /\ Recording' \in BOOLEAN
    <2>1. state_' \in States /\ source' \in BOOLEAN
      BY <1>i DEF ResInv, TypeOK
    <2>2. Recording' \in BOOLEAN
      <3>1. CASE requires_resampling_'
        BY <3>1 DEF Recording
      <3>2. CASE ~requires_resampling_'
        BY <3>2, <2>1 DEF Recording
      <3> QED BY <3>1, <3>2
    <2> QED BY <2>1, <2>2 DEF States, AbstractMicrophone!MicStates
  <1>2. listeners > 0 => state_' # "STOPPED" /\ (state_' = "STOPPING" => state_ = "STOPPING")
    BY <1>o, <1>t DEF Outcome, CreatesTask, CreateFails, Waits, RunsAtOnce, StopsTask, StopsAtOnce,
                TaskWasRunning, TaskHadEnded, GoesOn
  <1>3. listeners = 0 => /\ state_' # "RUNNING" /\ (state_' = "STARTING" => state_ = "STARTING")
                         /\ state_ = "STOPPED" => state_' = "STOPPED"
    <2>1. state_ = "STOPPED" => task = "none"
      BY DEF ResInv, TaskInv
    <2> QED BY <2>1, <1>o, <1>t DEF Outcome, CreatesTask, CreateFails, Waits, RunsAtOnce, StopsTask,
                StopsAtOnce, TaskWasRunning, TaskHadEnded, GoesOn, Beginning
  <1>4. state_' = "RUNNING" => state_ # "STOPPING"
    BY <1>o DEF Outcome, CreatesTask, CreateFails, Waits, RunsAtOnce, StopsTask, StopsAtOnce,
                TaskWasRunning, TaskHadEnded, GoesOn
  <1>5. state_' = "STOPPED" => ~Recording'
    BY <1>i DEF ResInv, TaskInv, SourceInv, Recording
  <1>6. Recording' /\ ~Recording => state_' \in {"STARTING", "RUNNING"}
    BY <1>o, <1>u, <1>t DEF Outcome, CreatesTask, CreateFails, Waits, RunsAtOnce, StopsTask, StopsAtOnce,
                TaskWasRunning, TaskHadEnded, GoesOn, Recording
  <1> QED BY <1>u, <1>1, <1>2, <1>3, <1>4, <1>5, <1>6 DEF AbstractMicrophone!Loop

(* ... start() and stop() are Start and Stop, and the end of the task is   *)
(* Ends; no other step can be seen by a listener.                          *)
LEMMA StepImplements ==
  ASSUME ResInv, [Next]_vars
  PROVE  [AbstractMicrophone!Next]_(AbstractMicrophone!micVars)
  <1> USE DEF AbstractMicrophone!micVars
  <1>t. requires_resampling_ \in BOOLEAN
    BY DEF ResInv, TypeOK
  <1>1. CASE ListenerStarts
    <2>1. Recording' = Recording
      BY <1>1 DEF ListenerStarts, Recording
    <2>2. AbstractMicrophone!Start
      BY <1>1, <2>1 DEF ListenerStarts, AbstractMicrophone!Start
    <2> QED BY <2>2 DEF AbstractMicrophone!Next
  <1>2. CASE ListenerStops
    <2>1. Recording' = Recording
      BY <1>2 DEF ListenerStops, Recording
    <2>2. AbstractMicrophone!Stop
      BY <1>2, <2>1 DEF ListenerStops, AbstractMicrophone!Stop
    <2> QED BY <2>2 DEF AbstractMicrophone!Next
  <1>3. CASE Loop
    BY <1>3, LoopImplements DEF AbstractMicrophone!Next
  <1>4. CASE ErrorEnds \/ SourceData \/ UNCHANGED vars
    BY <1>4 DEF ErrorEnds, SourceData, vars, Recording
  <1>5. CASE TaskBegins \/ TaskRuns
    BY <1>5 DEF TaskBegins, TaskRuns, unchangedByTask, Recording
  <1>6. CASE TaskEnds
    <2>1. requires_resampling_
      BY <1>6, <1>t DEF TaskEnds, ResInv, SourceInv
    <2>2. Recording = TRUE /\ Recording' = FALSE /\ state_' = state_ /\ listeners' = listeners
      BY <1>6, <2>1 DEF TaskEnds, unchangedByTask, Recording
    <2>3. AbstractMicrophone!Ends
      BY <2>2 DEF AbstractMicrophone!Ends
    <2> QED BY <2>3 DEF AbstractMicrophone!Next
  <1> QED BY <1>1, <1>2, <1>3, <1>4, <1>5, <1>6 DEF Next, TaskStep

(* The start is a start of module Microphone.                              *)
LEMMA InitImplements == Init => AbstractMicrophone!Init
  BY DEF Init, Recording, AbstractMicrophone!Init

(* The resampling microphone implements module Microphone, for any number  *)
(* of listeners and whatever fails.                                        *)
THEOREM ResamplerImplements == Spec => ImplementsMicrophone
  <1>1. Init => ResInv
    BY ResInvInit
  <1>2. ResInv /\ [Next]_vars => ResInv'
    BY ResInvStep
  <1>3. ResInv /\ [Next]_vars => [AbstractMicrophone!Next]_(AbstractMicrophone!micVars)
    BY StepImplements
  <1> QED BY <1>1, <1>2, <1>3, InitImplements, PTL DEF Spec, ImplementsMicrophone, AbstractMicrophone!Spec

-----------------------------------------------------------------------------
(* The chain.  A loop() of the raw microphone comes between two loop()s of *)
(* its listener: when the listener is called again, the raw microphone has *)
(* seen that it is enabled and has left STATE_STOPPED.                     *)
RawInv == RawFollows /\ (turn = "resampler" /\ source => raw_state # "STOPPED")

(* A step of the chain is one of the resampling microphone.                *)
LEMMA ChainStep == ChainNext => [Next]_vars
  BY DEF ChainNext, ChainLoop, RawLoop, RawData, RawEnds, OfResampler, Next

(* The steps other than loop() leave the source alone.                     *)
LEMMA SourceKept ==
  ASSUME ResInv, ListenerStarts \/ ListenerStops \/ ErrorEnds \/ SourceData \/ TaskStep
  PROVE  source' = source
  BY DEF ListenerStarts, ListenerStops, ErrorEnds, SourceData, TaskStep, TaskBegins, TaskRuns, TaskEnds,
         unchangedByTask

(* Every step of the chain keeps RawInv.                                   *)
LEMMA RawInvStep ==
  ASSUME ResInv, ResInv', RawInv, [ChainNext]_chainVars
  PROVE  RawInv'
  <1>t. source \in BOOLEAN /\ source' \in BOOLEAN
    BY DEF ResInv, TypeOK
  <1>r. raw_listeners = IF source THEN 1 ELSE 0
    BY DEF RawInv, RawFollows
  <1>1. CASE ChainLoop
    <2>1. turn = "resampler" /\ turn' = "raw" /\ SourceFollows
      BY <1>1 DEF ChainLoop
    <2>2. CASE ~source /\ source'
      <3>1. Raw!Start
        BY <2>1, <2>2 DEF SourceFollows
      <3>2. raw_listeners' = 1
        BY <3>1, <1>r, <2>2, ResamplerAssumption DEF Raw!Start
      <3> QED BY <3>2, <2>1, <2>2 DEF RawInv, RawFollows
    <2>3. CASE source /\ ~source'
      <3>1. Raw!Stop
        BY <2>1, <2>3 DEF SourceFollows
      <3>2. raw_state # "STOPPED"
        BY <2>1, <2>3 DEF RawInv
      <3>3. raw_listeners' = 0
        BY <3>1, <3>2, <1>r, <2>3 DEF Raw!Stop
      <3> QED BY <3>3, <2>1, <2>3 DEF RawInv, RawFollows
    <2>4. CASE source' = source
      <3>1. UNCHANGED rawVars
        BY <2>1, <2>4 DEF SourceFollows
      <3> QED BY <3>1, <2>1, <2>4, <1>r DEF rawVars, RawInv, RawFollows
    <2> QED BY <2>2, <2>3, <2>4, <1>t
  <1>2. CASE RawLoop
    <2>1. source' = source /\ raw_listeners' = raw_listeners
      BY <1>2 DEF RawLoop, vars, Raw!Loop
    <2>2. source => raw_state' # "STOPPED"
      BY <1>2, <1>r DEF RawLoop, Raw!Loop
    <2> QED BY <2>1, <2>2 DEF RawInv, RawFollows
  <1>3. CASE RawData
    BY <1>3, SourceKept DEF RawData, rawVars, RawInv, RawFollows
  <1>4. CASE RawEnds
    BY <1>4 DEF RawEnds, Raw!Ends, vars, RawInv, RawFollows
  <1>5. CASE OfResampler(ListenerStarts \/ ListenerStops \/ ErrorEnds \/ TaskStep)
    <2>1. source' = source
      BY <1>5, SourceKept DEF OfResampler
    <2> QED BY <2>1, <1>5 DEF OfResampler, rawVars, RawInv, RawFollows
  <1>6. CASE UNCHANGED chainVars
    BY <1>6 DEF chainVars, vars, rawVars, RawInv, RawFollows
  <1> QED BY <1>1, <1>2, <1>3, <1>4, <1>5, <1>6 DEF ChainNext

(* Both ResInv and RawInv hold of the chain.                               *)
LEMMA ChainInvariant == ChainSpec => [](ResInv /\ RawInv)
  <1>1. ChainInit => ResInv /\ RawInv
    <2>1. ChainInit => ResInv
      BY ResInvInit DEF ChainInit
    <2>2. ChainInit => RawInv
      BY DEF ChainInit, Init, Raw!Init, RawInv, RawFollows
    <2> QED BY <2>1, <2>2
  <1>2. [ChainNext]_chainVars => [Next]_vars
    BY ChainStep DEF chainVars
  <1>3. ResInv /\ RawInv /\ [ChainNext]_chainVars => (ResInv /\ RawInv)'
    BY <1>2, ResInvStep, RawInvStep
  <1> QED BY <1>1, <1>3, PTL DEF ChainSpec

(* The raw microphone knows of its listener exactly while that is enabled. *)
THEOREM RawAlwaysFollows == ChainSpec => []RawFollows
  <1>1. RawInv => RawFollows
    BY DEF RawInv
  <1> QED BY <1>1, ChainInvariant, PTL

(* A running microphone has its source and its task, and no stop command   *)
(* outlives the task it is for.                                            *)
THEOREM StateAlwaysMatches == ChainSpec => []StateMatchesTask
  BY ResInvImplies, ChainInvariant, PTL

(* The resampling microphone implements module Microphone in the chain as  *)
(* well: loop() and its source are one step.                               *)
THEOREM ChainImplements == ChainSpec => ImplementsMicrophone
  <1>1. ChainInit => Init
    BY DEF ChainInit
  <1>2. [ChainNext]_chainVars => [Next]_vars
    BY ChainStep DEF chainVars
  <1>3. ChainSpec => Spec
    BY <1>1, <1>2, PTL DEF ChainSpec, Spec
  <1> QED BY <1>3, ResamplerImplements
=============================================================================
