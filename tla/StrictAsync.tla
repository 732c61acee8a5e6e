----------------------------- MODULE StrictAsync -----------------------------
(***************************************************************************)
(* Strict-async training as fully_async_main.py wires it: the rollouter    *)
(* asks the window coordinator to admit each sample, generates it and puts *)
(* it in the raw queue; the dispatcher has it judged, publishes it in the  *)
(* scored queue and marks its reward done; the trainer collects a batch,   *)
(* marks it consumed, trains, and every SyncStep batches pauses the        *)
(* rollouter, advances the coordinator, transfers the weights and resumes. *)
(*                                                                         *)
(* Every action is one of a component, joined with its calls to the others.*)
(* FullyAsyncTaskRunner.main waits for the three futures: it returns when  *)
(* all have, and raises as soon as one raises, which ends the job.         *)
(***************************************************************************)
EXTENDS StrictRollouter, JudgeDispatcher, StrictTrainer, WindowCoordinator

VARIABLES
  main,      (* where the task runner is *)
  group,     (* group_id of each sample, <<>> before its admission *)
  madeWith   (* the weights that generated each sample: history *)

queues == <<rawQueue, scoredQueue>>
sampleVars == <<group, madeWith>>

jobVars == <<main, sampleVars>>

vars == <<rollouterVars, queues, judgeVars, dispatcherVars, trainerVars,
          coordinatorVars, jobVars>>

NoGroup == <<>>

Init ==
  /\ RollouterInit
  /\ DispatcherInit
  /\ TrainerInit
  /\ CoordinatorInit
  /\ main = "initialising"
  /\ group = [s \in Samples |-> NoGroup]
  /\ madeWith = [s \in Samples |-> {}]

-----------------------------------------------------------------------------
(* Rollouter *)

RollouterAlone ==
  /\ Feed \/ LockStep \/ ProcessorStep \/ MonitorStep \/ RemoteStep
  /\ UNCHANGED <<queues, judgeVars, dispatcherVars, trainerVars,
                 coordinatorVars, jobVars>>

OutsideTasks ==
  UNCHANGED <<scoredQueue, judgeVars, dispatcherVars, trainerVars, main>>

(* _await_window_admission, then the start of generation. *)
Admit(s) ==
  /\ TaskAdmitted(s)
  /\ RequestAdmission
  /\ group' = [group EXCEPT ![s] = NextGroupId]
  /\ madeWith' = [madeWith EXCEPT ![s] = {weights}]
  /\ UNCHANGED rawQueue
  /\ OutsideTasks

(* Refused until the deadline passes. *)
AdmissionTimesOut(s) ==
  /\ TaskAdmissionTimesOut(s)
  /\ windowState # "OPEN"
  /\ UNCHANGED <<rawQueue, coordinatorVars, jobVars>>
  /\ OutsideTasks

Generated(s) ==
  /\ TaskGenerated(s)
  /\ UNCHANGED <<rawQueue, coordinatorVars, jobVars>>
  /\ OutsideTasks

GenerationFails(s) ==
  /\ TaskGenerationFails(s)
  /\ UNCHANGED <<rawQueue, coordinatorVars, jobVars>>
  /\ OutsideTasks

EnqueueRaw(s) ==
  /\ \/ /\ TaskEnqueued(s)
        /\ HasRoom(rawQueue, RawQueueSize)
        /\ rawQueue' = PutNowait(rawQueue, RawQueueSize, s)
     \/ /\ TaskStoppedEnqueuing(s)
        /\ UNCHANGED rawQueue
  /\ UNCHANGED <<coordinatorVars, jobVars>>
  /\ OutsideTasks

TaskProgress(s) ==
  Admit(s) \/ AdmissionTimesOut(s) \/ Generated(s) \/ EnqueueRaw(s)

(* The end of _streaming_generation_main. *)
EndGeneration ==
  /\ ProcessorEnds
  /\ HasRoom(rawQueue, RawQueueSize)
  /\ rawQueue' = PutNowait(rawQueue, RawQueueSize, EndMarker)
  /\ UNCHANGED <<coordinatorVars, jobVars>>
  /\ OutsideTasks

RollouterStops ==
  /\ StopRunning
  /\ UNCHANGED <<rawQueue, coordinatorVars, jobVars>>
  /\ OutsideTasks

-----------------------------------------------------------------------------
(* Judge actors and dispatcher *)

OutsideJudging == UNCHANGED <<rollouterVars, trainerVars, jobVars>>

Judge(w) == JudgeFinishes(w) /\ OutsideJudging /\ UNCHANGED coordinatorVars

DispatcherAlone ==
  /\ \/ Pull \/ PullNothing \/ ReapNothing \/ Publish \/ PublishEnd
     \/ \E s \in Samples : ReapScore(s)
  /\ OutsideJudging
  /\ UNCHANGED coordinatorVars

(* The two mark methods raise KeyError for a group that is not a member.   *)
IsMember(s) == group[s] \in admitted

DispatcherMarks ==
  /\ dispatcher = "mark"
  /\ Marked(IsMember(payload))
  /\ IF IsMember(payload) THEN MarkRewardDone(group[payload])
                          ELSE UNCHANGED coordinatorVars
  /\ OutsideJudging

DispatcherStep == DispatcherAlone \/ DispatcherMarks

-----------------------------------------------------------------------------
(* Trainer and parameter synchronizer *)

OutsideTrainer ==
  UNCHANGED <<rawQueue, judgeVars, dispatcherVars, jobVars>>

Collect ==
  /\ scoredQueue # <<>>
  /\ scoredQueue' = Tail(scoredQueue)
  /\ \/ Head(scoredQueue) = EndMarker /\ CollectEnd
     \/ Head(scoredQueue) # EndMarker /\ CollectSample(Head(scoredQueue))
  /\ OutsideTrainer
  /\ UNCHANGED <<rollouterVars, coordinatorVars>>

TrainerConsumes ==
  LET s == batch[consumedCount + 1] IN
  /\ trainer = "consume"
  /\ ConsumedNext(IsMember(s))
  /\ IF IsMember(s) THEN MarkConsumed(group[s])
                    ELSE UNCHANGED coordinatorVars
  /\ OutsideTrainer
  /\ UNCHANGED <<rollouterVars, scoredQueue>>

TrainerAlone ==
  /\ \/ Train
     \/ remote = "none" /\ (FinalValidation \/ FinalWait)
  /\ OutsideTrainer
  /\ UNCHANGED <<rollouterVars, scoredQueue, coordinatorVars>>

(* wait_last_valid, then the call of pause(). *)
StartSync ==
  /\ remote = "none"
  /\ CallPause
  /\ CallRemote("pause")
  /\ OutsideTrainer
  /\ UNCHANGED <<scoredQueue, coordinatorVars>>

(* _sync_runtime_version, once pause() has returned. *)
SyncVersion ==
  /\ remote = "paused"
  /\ \/ /\ VersionIsCurrent(paramVersion)
        /\ KeepVersion
        /\ UNCHANGED coordinatorVars
     \/ /\ VersionMayAdvance(paramVersion)
        /\ AdvanceVersion
        /\ VersionAdvanced(paramVersion + 1)
     \/ /\ VersionRefused(paramVersion, ReadyForSync)
        /\ UNCHANGED coordinatorVars
  /\ OutsideTrainer
  /\ UNCHANGED <<rollouterVars, scoredQueue>>

(* A sample being generated meanwhile is finished with other weights than  *)
(* it was begun with.                                                      *)
TransferWeights ==
  /\ SyncWeights
  /\ CallRemote("update")
  /\ madeWith' = [s \in Samples |->
                    IF task[s] = "generating"
                    THEN madeWith[s] \union {weights'} ELSE madeWith[s]]
  /\ UNCHANGED <<queues, judgeVars, dispatcherVars, coordinatorVars, main,
                 group>>

TrainerStep ==
  Collect \/ TrainerConsumes \/ TrainerAlone \/ StartSync \/ SyncVersion
          \/ TransferWeights

-----------------------------------------------------------------------------
(* The task runner *)

OutsideMain ==
  UNCHANGED <<rollouterVars, queues, judgeVars, dispatcherVars,
              coordinatorVars, sampleVars>>

(* _initialize_components, then the start of the three loops. *)
InitialSynchronisation ==
  /\ main = "initialising"
  /\ InitialSync(paramVersion)
  /\ main' = IF trainer' = "initFailed" THEN "raised" ELSE "running"
  /\ OutsideMain

RollouterReturned == monitor = "exited" /\ ~running

MainReturns ==
  /\ RollouterReturned /\ trainer = "done" /\ dispatcher = "exited"
  /\ main' = "returned"

MainRaises ==
  /\ trainer = "failed" \/ dispatcher = "raised"
  /\ main' = "raised"

MainStep ==
  /\ MainReturns \/ MainRaises
  /\ UNCHANGED trainerVars
  /\ OutsideMain

-----------------------------------------------------------------------------
Running == main = "running"

Next ==
  \/ InitialSynchronisation
  \/ /\ Running
     /\ \/ RollouterAlone \/ EndGeneration \/ RollouterStops
        \/ \E s \in Samples : TaskProgress(s) \/ GenerationFails(s)
        \/ \E w \in Workers : Judge(w)
        \/ DispatcherStep
        \/ TrainerStep
        \/ MainStep

Spec == Init /\ [][Next]_vars

(* The event loop runs every coroutine that can run, a task's generation   *)
(* and a judge's call return, and the blocking loops poll for ever.        *)
FairSpec ==
  /\ Spec
  /\ WF_vars(InitialSynchronisation)
  /\ WF_vars(Running /\ RollouterAlone /\ Feed)
  /\ WF_vars(Running /\ RollouterAlone /\ LockStep)
  /\ WF_vars(Running /\ RollouterAlone /\ ProcessorStep)
  /\ WF_vars(Running /\ RollouterAlone /\ MonitorStep)
  /\ WF_vars(Running /\ RollouterAlone /\ RemoteStep)
  /\ WF_vars(Running /\ EndGeneration)
  /\ WF_vars(Running /\ RollouterStops)
  /\ \A s \in Samples : WF_vars(Running /\ TaskProgress(s))
  /\ \A w \in Workers : WF_vars(Running /\ Judge(w))
  /\ WF_vars(Running /\ DispatcherStep)
  /\ WF_vars(Running /\ TrainerStep)
  /\ WF_vars(Running /\ MainStep)

-----------------------------------------------------------------------------
(* Correctness *)

TypeOK ==
  /\ RollouterTypeOK /\ DispatcherTypeOK /\ TrainerTypeOK
  /\ CoordinatorTypeOK
  /\ main \in {"initialising", "running", "returned", "raised"}
  /\ \A s \in Samples : group[s] \in GroupIds \union {NoGroup}

(* Training as a whole, from the coordinator's windows to the optimizer:   *)
(* the version advances only when the optimizer has stepped on every       *)
(* sample of a full window, each of them judged, and no sample is trained  *)
(* on twice, or in another window than its own.                            *)
Training == INSTANCE OnPolicyWindows WITH
  Groups <- Samples, WindowSize <- TargetGroupCount,
  version <- paramVersion,
  used <- {s \in Samples : group[s] # NoGroup},
  members <- {s \in Samples : IsMember(s)},
  judged <- {s \in Samples : group[s] \in rewardDone},
  trained <- {s \in Samples : IsMember(s) /\ <<s, paramVersion>> \in trained}

ImplementsOnPolicyWindows == Training!Spec

(* Strict on-policy: the weights being optimized are those that generated  *)
(* the whole sample.                                                       *)
StrictOnPolicy == \A e \in trained : madeWith[e[1]] = {e[2]}

(* While the configuration ties the window to the rollout quota, and until *)
(* a judge raises, a task that asks for admission finds the window open:   *)
(* the five-minute wait of _await_window_admission, whose timeout would    *)
(* lose the sample, is never entered.                                      *)
AdmissionNeverRefused ==
  unjudged = {} =>
    \A s \in Samples : task[s] = "admission" => windowState = "OPEN"

(* A group being marked is a member of the current window: the KeyError of *)
(* mark_reward_done and of mark_consumed is never raised, however late the *)
(* dispatcher or the trainer comes.                                        *)
MarksAreCurrent ==
  /\ dispatcher = "mark" => IsMember(payload)
  /\ trainer = "consume" =>
       \A i \in consumedCount + 1 .. Len(batch) : IsMember(batch[i])

(* Every generated sample is at one place of the pipeline, or where it     *)
(* ends: trained, given up with a batch that was not full, or refused by a *)
(* judge that raised.  A hand-over neither loses nor duplicates it.        *)
Trained(s) == \E e \in trained : e[1] = s

Places(s) ==
  {p \in {"raw", "judge", "scored", "dispatcher", "queue", "batch",
          "trained", "givenUp", "unjudged"} :
     \/ p = "raw" /\ \E i \in DOMAIN rawQueue : rawQueue[i] = s
     \/ p = "judge" /\ s \in Pending \ scored
     \/ p = "scored" /\ s \in scored
     \/ p = "dispatcher" /\ dispatcher = "publish" /\ payload = s
     \/ p = "queue" /\ \E i \in DOMAIN scoredQueue : scoredQueue[i] = s
     \/ p = "batch" /\ \E i \in DOMAIN batch : batch[i] = s
     \/ p = "trained" /\ Trained(s)
     \/ p = "givenUp" /\ s \in givenUp
     \/ p = "unjudged" /\ s \in unjudged}

HandedOverOnce ==
  \A s \in Samples :
    Cardinality(Places(s)) = IF task[s] = "ok" THEN 1 ELSE 0

(* At most one quota of samples is in flight, submitted and not yet        *)
(* trained, for as long as the trainer trains.  (The final validation      *)
(* resets staleness_samples whatever is left untrained.)                   *)
BoundedStaleness ==
  ~finishing =>
    Cardinality({s \in Samples : task[s] # "none" /\ ~Trained(s)})
      <= MaxRequiredSamples

(* The trainer asks for the next version only when the window of this one  *)
(* is ready: sync_weights does not raise "sync requested before window     *)
(* ready" during training.                                                 *)
SyncFindsWindowReady ==
  trainer = "version" /\ remote = "paused" /\ ~finishing =>
    VersionMayAdvance(paramVersion) /\ ReadyForSync

(* What the trainer has when it asks: a whole synchronisation's worth of   *)
(* groups, all that were admitted, consumed and judged, save the one whose *)
(* mark the dispatcher is about to send.                                   *)
OnlyMarkIsLate ==
  trainer = "version" /\ remote = "paused" /\ ~finishing =>
    /\ VersionMayAdvance(paramVersion)
    /\ Cardinality(admitted) = RequiredSamples * SyncStep
    /\ consumed = admitted
    /\ \A s \in Samples : IsMember(s) /\ group[s] \notin rewardDone =>
                            dispatcher = "mark" /\ payload = s

(* The synchronisation of the final validation is refused only if the      *)
(* optimizer has stepped since the last one, which the version is bumped   *)
(* for: one that reuses the version is accepted, whatever is still being   *)
(* judged or marked.                                                       *)
FinalSyncFailsMidway ==
  finishing /\ trainer = "failed" => \E e \in trained : e[2] = paramVersion

NothingFailed == unjudged = {} /\ \A s \in Samples : task[s] # "failed"

(* Only what does not fill a batch goes untrained, if nothing failed.      *)
OnlyRemainderIsLost ==
  main = "returned" /\ NothingFailed =>
    Cardinality({s \in Samples : ~Trained(s)}) = SampleCount % RequiredSamples

(* While no generation fails and no judge raises the processor survives:   *)
(* no task times out, and pause() emptying active_tasks while the          *)
(* processor waits for the lock does not leave it with an unbound          *)
(* done_tasks.                                                             *)
ProcessorSurvives == NothingFailed => processor # "crashed"

(* The job ends: rollouter, dispatcher and trainer never wait for each     *)
(* other for ever.                                                         *)
Terminates == <>(main \in {"returned", "raised"})
=============================================================================
