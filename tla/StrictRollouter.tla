--------------------------- MODULE StrictRollouter ---------------------------
(***************************************************************************)
(* FullyAsyncRollouter in strict-async mode,                               *)
(* verl/experimental/fully_async_policy/fully_async_rollouter.py.          *)
(*                                                                         *)
(* One asyncio event loop runs the feeder, the processor, the monitor, one *)
(* task per sample and the remote calls pause, update_param_version and    *)
(* resume.  A coroutine gives up the loop only where an await really       *)
(* waits: for a lock that is taken, an empty queue, a task, an answer.     *)
(* Until then it is the one "onLoop", and no other runs.  The condition's  *)
(* lock is first come, first served; it is held across awaits by the       *)
(* processor (waiting for tasks), by pause and by update_param_version.    *)
(*                                                                         *)
(* Strict mode with partial_rollout off (ropd.yaml): nothing is cancelled, *)
(* so cancel_queue stays empty, and the message queue carries no samples,  *)
(* so its size is 0.  The actions that reach another component leave its   *)
(* part to StrictAsync.                                                    *)
(***************************************************************************)
EXTENDS Naturals, Sequences, FiniteSets

CONSTANTS
  SampleCount,         (* total_rollout_steps *)
  MaxRequiredSamples,  (* required_samples * (staleness_threshold + 1)
                          * trigger_parameter_sync_step *)
  MaxConcurrent,       (* max_concurrent_samples *)
  PendingQueueSize,    (* maxsize of pending_queue *)
  GenerationCanFail    (* whether generation may raise *)

ASSUME RollouterAssumption ==
  /\ SampleCount \in Nat \ {0}
  /\ MaxRequiredSamples \in Nat \ {0}
  /\ MaxConcurrent \in 1 .. MaxRequiredSamples
  /\ PendingQueueSize \in Nat \ {0}
  /\ GenerationCanFail \in BOOLEAN

Samples == 1 .. SampleCount
NoSample == 0

VARIABLES
  fed,             (* samples in pending_queue so far, then "DONE" as one more *)
  taken,           (* samples the processor took from pending_queue *)
  hand,            (* the sample the processor took and has not submitted *)
  processor,       (* where the processor coroutine is *)
  doneTasksBound,  (* the processor's local done_tasks has a value *)
  task,            (* state of the task of each sample *)
  active,          (* active_tasks *)
  staleness,       (* staleness_samples *)
  paused,
  running,
  monitorTrigger,  (* monitor_loop_trigger *)
  monitor,         (* where the monitor coroutine is *)
  onLoop,          (* the coroutine that has not waited since its last step *)
  lock,            (* who holds the lock across an await *)
  lockQueue,       (* who waits for the lock *)
  remote,          (* the remote call in progress, or the one to come *)
  resetTo          (* the sum update_param_version formed before its await *)

processorVars == <<taken, hand, processor, doneTasksBound>>
sampleTasks == <<task, active, staleness>>
lockVars == <<lock, lockQueue>>
otherVars == <<running, monitorTrigger, monitor, remote, resetTo>>
rollouterVars == <<fed, processorVars, sampleTasks, paused, onLoop, lockVars,
                   otherVars>>

TaskState == {"none", "admission", "generating", "enqueue", "ok", "failed"}
Finished(s) == task[s] \in {"ok", "failed"}

(* The three loops in which the processor waits for tasks.  In a loop it   *)
(* waits for tasks while it holds the lock, for the lock otherwise.        *)
ReapLoop == {"halt", "limit", "final"}
ProcessorState ==
  ReapLoop \union
  {"loop", "pausing", "sleep", "asleep", "take", "submit", "submitAsleep",
   "exited", "crashed", "ended"}

ReapAgain(l, tasks) ==
  IF l = "limit" THEN Cardinality(tasks) >= MaxConcurrent ELSE tasks # {}

AfterReap == [halt |-> "sleep", limit |-> "submit", final |-> "exited"]

ReapOrGoOn(l, tasks) ==
  IF ReapAgain(l, tasks) THEN l ELSE AfterReap[l]

(* The state after the initial synchronisation and the start of fit().     *)
RollouterInit ==
  /\ fed = 0 /\ taken = 0 /\ hand = NoSample
  /\ processor = "loop" /\ doneTasksBound = FALSE
  /\ task = [s \in Samples |-> "none"] /\ active = {} /\ staleness = 0
  /\ paused = FALSE /\ running = TRUE /\ monitorTrigger = TRUE
  /\ monitor = "asleep" /\ onLoop = "none"
  /\ lock = "free" /\ lockQueue = <<>> /\ remote = "none" /\ resetTo = 0

ShouldPauseLate == staleness > MaxRequiredSamples
ShouldPause == staleness >= MaxRequiredSamples

-----------------------------------------------------------------------------
(* The event loop and the lock *)

Runs(c) == onLoop \in {"none", c}

LockFor(c) == lock = "free" /\ (lockQueue # <<>> => Head(lockQueue) = c)

(* Who takes the lock leaves the head of the queue, if it had to wait. *)
Served ==
  lockQueue' = IF lockQueue = <<>> THEN lockQueue ELSE Tail(lockQueue)

(* Take the lock and give it back before the next await, or keep it. *)
PassLock(c) == Runs(c) /\ LockFor(c) /\ Served /\ UNCHANGED lock
KeepLock(c) == Runs(c) /\ LockFor(c) /\ Served /\ lock' = c

Release == lock' = "free" /\ UNCHANGED lockQueue

WantsLock(c) ==
  CASE c = "processor" ->
         /\ processor \in ReapLoop \union {"pausing", "sleep", "submit"}
         /\ lock # "processor"
    [] c = "monitor" -> monitor \in {"top", "resuming"}
    [] c = "remote" -> remote \in {"pause", "update", "resume"}
    [] c = "main" -> processor = "ended" /\ running

WaitForLock(c) ==
  /\ Runs(c)
  /\ WantsLock(c) /\ ~LockFor(c)
  /\ c \notin {lockQueue[i] : i \in DOMAIN lockQueue}
  /\ lockQueue' = Append(lockQueue, c)
  /\ onLoop' = "none"
  /\ UNCHANGED <<fed, processorVars, sampleTasks, paused, lock, otherVars>>

LockStep ==
  \E c \in {"processor", "monitor", "remote", "main"} : WaitForLock(c)

-----------------------------------------------------------------------------
(* Feeder: put waits only when the queue is full. *)

Feed ==
  /\ Runs("feeder")
  /\ fed < SampleCount + 1
  /\ fed < taken + PendingQueueSize
  /\ fed' = IF taken + PendingQueueSize < SampleCount + 1
            THEN taken + PendingQueueSize ELSE SampleCount + 1
  /\ UNCHANGED <<processorVars, sampleTasks, paused, onLoop, lockVars,
                 otherVars>>

-----------------------------------------------------------------------------
(* Processor.  A step goes on to the next unless that one waits. *)

GoesOn ==
  /\ onLoop' = IF processor' \in {"exited", "crashed"}
               THEN "none" ELSE "processor"
  /\ UNCHANGED <<fed, otherVars>>

WaitsNow == onLoop' = "none" /\ UNCHANGED <<fed, otherVars>>

CheckPause ==
  /\ Runs("processor")
  /\ processor = "loop"
  /\ processor' = IF paused \/ ShouldPause THEN "pausing" ELSE "take"
  /\ GoesOn
  /\ UNCHANGED <<taken, hand, doneTasksBound, sampleTasks, paused, lockVars>>

SetPaused ==
  /\ processor = "pausing"
  /\ PassLock("processor")
  /\ paused' = TRUE
  /\ processor' = ReapOrGoOn("halt", active)
  /\ GoesOn
  /\ UNCHANGED <<taken, hand, doneTasksBound, sampleTasks>>

ReapWait(l) ==
  /\ processor = l
  /\ KeepLock("processor")
  /\ active # {}
  /\ WaitsNow
  /\ UNCHANGED <<processorVars, sampleTasks, paused>>

(* With the lock acquired the set may have become empty: pause() cleared   *)
(* it.  The loop over done_tasks then sees the tasks of the last wait,     *)
(* already awaited, or raises UnboundLocalError if there was none.         *)
ReapNoTasks(l) ==
  /\ processor = l
  /\ PassLock("processor")
  /\ active = {}
  /\ processor' = IF doneTasksBound THEN AfterReap[l] ELSE "crashed"
  /\ GoesOn
  /\ UNCHANGED <<taken, hand, doneTasksBound, sampleTasks, paused>>

(* Every finished task leaves the set; awaiting a failed one raises.       *)
Reap(l) ==
  LET done == {s \in active : Finished(s)} IN
  /\ Runs("processor")
  /\ processor = l
  /\ lock = "processor"
  /\ done # {}
  /\ active' = active \ done
  /\ doneTasksBound' = TRUE
  /\ Release
  /\ processor' = IF \E s \in done : task[s] = "failed"
                  THEN "crashed" ELSE ReapOrGoOn(l, active')
  /\ GoesOn
  /\ UNCHANGED <<taken, hand, task, staleness, paused>>

Sleep ==
  /\ processor = "sleep"
  /\ PassLock("processor")
  /\ \/ paused /\ processor' = "asleep" /\ WaitsNow
     \/ ~paused /\ processor' = "loop" /\ GoesOn
  /\ UNCHANGED <<taken, hand, doneTasksBound, sampleTasks, paused>>

(* staleness_samples counts the end marker as well.                        *)
Take ==
  /\ Runs("processor")
  /\ processor = "take"
  /\ taken < fed
  /\ staleness' = staleness + 1
  /\ \/ /\ taken < SampleCount
        /\ taken' = taken + 1
        /\ hand' = taken'
        /\ processor' = ReapOrGoOn("limit", active)
     \/ /\ taken = SampleCount
        /\ processor' = ReapOrGoOn("final", active)
        /\ UNCHANGED <<taken, hand>>
  /\ GoesOn
  /\ UNCHANGED <<doneTasksBound, task, active, paused, lockVars>>

WaitForSample ==
  /\ onLoop = "processor"
  /\ processor = "take" /\ taken = fed
  /\ WaitsNow
  /\ UNCHANGED <<processorVars, sampleTasks, paused, lockVars>>

Submit ==
  /\ processor = "submit"
  /\ PassLock("processor")
  /\ \/ /\ paused
        /\ processor' = "submitAsleep"
        /\ WaitsNow
        /\ UNCHANGED <<hand, task, active>>
     \/ /\ ~paused
        /\ task' = [task EXCEPT ![hand] = "admission"]
        /\ active' = active \union {hand}
        /\ hand' = NoSample
        /\ processor' = "loop"
        /\ GoesOn
  /\ UNCHANGED <<taken, doneTasksBound, staleness, paused>>

ProcessorStep ==
  \/ CheckPause \/ SetPaused \/ Sleep \/ Take \/ WaitForSample \/ Submit
  \/ \E l \in ReapLoop : ReapWait(l) \/ ReapNoTasks(l) \/ Reap(l)

(* condition.notify_all() *)
NotifyNobody == processor' = processor
WokenAs == [asleep |-> "sleep", submitAsleep |-> "submit"]
NotifyAll ==
  processor' = IF processor \in {"asleep", "submitAsleep"}
               THEN WokenAs[processor] ELSE processor

-----------------------------------------------------------------------------
(* Sample tasks: _process_single_sample_streaming. *)

TaskStep(s, from, to) ==
  /\ Runs("task")
  /\ task[s] = from
  /\ task' = [task EXCEPT ![s] = to]
  /\ UNCHANGED <<fed, processorVars, active, staleness, paused, onLoop,
                 lockVars, otherVars>>

TaskAdmitted(s) == TaskStep(s, "admission", "generating")
TaskAdmissionTimesOut(s) == TaskStep(s, "admission", "failed")
TaskGenerated(s) == TaskStep(s, "generating", "enqueue")
TaskGenerationFails(s) ==
  GenerationCanFail /\ TaskStep(s, "generating", "failed")
TaskEnqueued(s) == running /\ TaskStep(s, "enqueue", "ok")
TaskStoppedEnqueuing(s) == ~running /\ TaskStep(s, "enqueue", "failed")

-----------------------------------------------------------------------------
(* Monitor: every ten seconds, lift a pause that is no longer called for.  *)
(* The decision is taken before the lock is asked for.                     *)

MonitorOnly ==
  UNCHANGED <<fed, taken, hand, doneTasksBound, sampleTasks, running,
              monitorTrigger, onLoop, remote, resetTo>>

MonitorTurn ==
  /\ monitor = "top"
  /\ PassLock("monitor")
  /\ monitor' = IF running THEN "asleep" ELSE "exited"
  /\ UNCHANGED <<processor, paused>>
  /\ MonitorOnly

LiftPause == paused' = FALSE /\ NotifyAll
LeavePause == UNCHANGED <<processor, paused>>

MonitorCheck ==
  /\ Runs("monitor")
  /\ monitor = "asleep"
  /\ \/ /\ ~monitorTrigger \/ ShouldPause
        /\ monitor' = "top"
        /\ LeavePause
        /\ UNCHANGED lockVars
     \/ /\ monitorTrigger /\ ~ShouldPause
        /\ LockFor("monitor")
        /\ monitor' = "top"
        /\ LiftPause
        /\ UNCHANGED lockVars
     \/ /\ monitorTrigger /\ ~ShouldPause
        /\ ~LockFor("monitor")
        /\ monitor' = "resuming"
        /\ lockQueue' = Append(lockQueue, "monitor")
        /\ LeavePause
        /\ UNCHANGED lock
  /\ MonitorOnly

MonitorResume ==
  /\ monitor = "resuming"
  /\ PassLock("monitor")
  /\ monitor' = "top"
  /\ LiftPause
  /\ MonitorOnly

MonitorStep == MonitorTurn \/ MonitorCheck \/ MonitorResume

-----------------------------------------------------------------------------
(* Remote calls.  "pause", "update" and "resume" stand for a call that has *)
(* not got the lock yet.                                                   *)

RemoteOnly ==
  UNCHANGED <<fed, taken, hand, doneTasksBound, task, running, monitor, onLoop>>

PauseStarts ==
  /\ remote = "pause"
  /\ KeepLock("remote")
  /\ paused' = TRUE
  /\ remote' = "pausing"
  /\ UNCHANGED <<processor, active, staleness, monitorTrigger, resetTo>>
  /\ RemoteOnly

(* gather(return_exceptions=True): failed tasks are dropped silently.      *)
PauseClears ==
  /\ Runs("remote")
  /\ remote = "pausing"
  /\ \A s \in active : Finished(s)
  /\ active' = {}
  /\ remote' = "cleared"
  /\ UNCHANGED <<processor, staleness, paused, monitorTrigger, lockVars,
                 resetTo>>
  /\ RemoteOnly

(* Once the key-value cache is cleared. *)
PauseReturns ==
  /\ Runs("remote")
  /\ remote = "cleared"
  /\ monitorTrigger' = FALSE
  /\ Release
  /\ remote' = "paused"
  /\ UNCHANGED <<processor, active, staleness, paused, resetTo>>
  /\ RemoteOnly

UpdateStarts ==
  /\ remote = "update"
  /\ KeepLock("remote")
  /\ resetTo' = Cardinality(active)
  /\ remote' = "updating"
  /\ UNCHANGED <<processor, active, staleness, paused, monitorTrigger>>
  /\ RemoteOnly

(* The sum is formed before the await and assigned after it.               *)
UpdateResetsStaleness ==
  /\ Runs("remote")
  /\ remote = "updating"
  /\ staleness' = resetTo
  /\ resetTo' = 0
  /\ remote' = "validating"
  /\ UNCHANGED <<processor, active, paused, monitorTrigger, lockVars>>
  /\ RemoteOnly

UpdateReturns ==
  /\ Runs("remote")
  /\ remote = "validating"
  /\ Release
  /\ remote' = "resume"
  /\ UNCHANGED <<processor, active, staleness, paused, monitorTrigger, resetTo>>
  /\ RemoteOnly

Resume ==
  /\ remote = "resume"
  /\ PassLock("remote")
  /\ paused' = FALSE
  /\ monitorTrigger' = TRUE
  /\ NotifyAll
  /\ remote' = "none"
  /\ UNCHANGED <<active, staleness, resetTo>>
  /\ RemoteOnly

RemoteStep ==
  \/ PauseStarts \/ PauseClears \/ PauseReturns
  \/ UpdateStarts \/ UpdateResetsStaleness \/ UpdateReturns \/ Resume

-----------------------------------------------------------------------------
(* _streaming_generation_main: once the processor is gone, for whatever    *)
(* reason, the end marker is queued (by StrictAsync) and running is reset. *)

ProcessorEnds ==
  /\ processor \in {"exited", "crashed"}
  /\ Runs("main")
  /\ processor' = "ended"
  /\ UNCHANGED <<fed, taken, hand, doneTasksBound, sampleTasks, paused,
                 onLoop, lockVars, otherVars>>

StopRunning ==
  /\ processor = "ended" /\ running
  /\ PassLock("main")
  /\ running' = FALSE
  /\ UNCHANGED <<fed, processorVars, sampleTasks, paused, onLoop,
                 monitorTrigger, monitor, remote, resetTo>>

(* The trainer's side puts a call in place. *)
CallRemote(call) ==
  /\ remote' = call
  /\ UNCHANGED <<fed, processorVars, sampleTasks, paused, onLoop, lockVars,
                 running, monitorTrigger, monitor, resetTo>>

RollouterTypeOK ==
  /\ fed \in 0 .. SampleCount + 1
  /\ taken \in Samples \union {0}
  /\ hand \in Samples \union {NoSample}
  /\ processor \in ProcessorState
  /\ doneTasksBound \in BOOLEAN
  /\ task \in [Samples -> TaskState]
  /\ active \subseteq Samples
  /\ staleness \in 0 .. SampleCount + 1
  /\ paused \in BOOLEAN
  /\ running \in BOOLEAN
  /\ monitorTrigger \in BOOLEAN
  /\ monitor \in {"top", "asleep", "resuming", "exited"}
  /\ onLoop \in {"none", "processor"}
  /\ lock \in {"free", "processor", "remote"}
  /\ Len(lockQueue) <= 4
  /\ remote \in {"none", "pause", "pausing", "cleared", "paused",
                 "update", "updating", "validating", "resume"}
  /\ resetTo \in 0 .. SampleCount
=============================================================================
