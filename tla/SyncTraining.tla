----------------------------- MODULE SyncTraining -----------------------------
(***************************************************************************)
(* The synchronous training loop (RayPPOTrainer.fit) and its checkpoints,  *)
(* killed and restarted with resume_mode auto at any point.                *)
(*                                                                         *)
(* A checkpoint is a directory per step with the actor's weights and the   *)
(* state of the dataloader; the tracker file names the step to resume.     *)
(* Weights are the sequence of batches they were trained on; a batch is    *)
(* its position in the epoch.  A write in place is two steps, and a kill   *)
(* between them leaves a torn file.                                        *)
(*                                                                         *)
(* Left out: the critic (GRPO has none), asynchronous saves, HDFS,         *)
(* validation, and the quality gate, which no reward manager triggers.     *)
(***************************************************************************)
EXTENDS Integers, Sequences

CONSTANTS
  EpochLength,   \* len(train_dataloader)
  TotalEpochs,   \* trainer.total_epochs
  PinnedSteps,   \* trainer.total_training_steps, 0 when it is null
  SaveFreq,      \* trainer.save_freq
  MaxToKeep,     \* trainer.max_actor_ckpt_to_keep
  MaxKills,      \* bound: kills in a behaviour
  Absent, Torn   \* a file that does not exist, or that is not whole

ASSUME SyncTrainingAssumption ==
  /\ Absent # Torn
  /\ \A m \in {Absent, Torn} : m \notin Nat /\ m \notin Seq(Nat)
  /\ {EpochLength, TotalEpochs, SaveFreq, MaxToKeep} \subseteq Nat \ {0}
  /\ {PinnedSteps, MaxKills} \subseteq Nat

TotalSteps == IF PinnedSteps = 0 THEN EpochLength * TotalEpochs ELSE PinnedSteps

PinnedEpochs == (TotalSteps + EpochLength - 1) \div EpochLength

EffectiveEpochs ==
  IF PinnedSteps > 0 /\ PinnedEpochs > TotalEpochs THEN PinnedEpochs
  ELSE TotalEpochs

\* bound: a restart of a finished job may train a step more
Steps == 1..(TotalSteps + MaxKills)

VARIABLES
  pc,           \* where the process is, "down" when it is killed
  globalSteps,  \* self.global_steps
  epoch,
  position,     \* batches of the epoch the dataloader has given
  yieldedAny,   \* local of _iter_train_dataloader
  weights,      \* the batches the actor was trained on
  savedPaths,   \* previous_saved_paths: steps saved by this process
  actor,        \* disk: weights in global_step_N/actor
  data,         \* disk: position in global_step_N/data.pt
  tracker,      \* disk: latest_checkpointed_iteration.txt
  kills

training == <<globalSteps, epoch, yieldedAny>>
memory == <<training, position, weights, savedPaths>>
disk == <<actor, data, tracker>>
vars == <<pc, memory, disk, kills>>

Missing == {Absent, Torn}

CurrentStep == globalSteps + 1

IsLastStep == CurrentStep >= TotalSteps

Init ==
  /\ pc = "down"
  /\ globalSteps = 0 /\ epoch = 0 /\ position = 0 /\ yieldedAny = FALSE
  /\ weights = <<>> /\ savedPaths = <<>>
  /\ actor = [n \in Steps |-> Absent]
  /\ data = [n \in Steps |-> Absent]
  /\ tracker = Absent
  /\ kills = 0

-----------------------------------------------------------------------------
\* _load_checkpoint, then the first epoch.
StartFromScratch ==
  /\ pc = "down"
  /\ tracker = Absent
  /\ pc' = "epoch"
  /\ UNCHANGED <<memory, disk, kills>>

Resume ==
  /\ pc = "down"
  /\ tracker \in Steps
  /\ actor[tracker] \notin Missing
  /\ data[tracker] # Torn
  /\ globalSteps' = tracker
  /\ epoch' = tracker \div EpochLength
  /\ weights' = actor[tracker]
  /\ position' = IF data[tracker] = Absent THEN 0 ELSE data[tracker]
  /\ pc' = "epoch"
  /\ UNCHANGED <<yieldedAny, savedPaths, disk, kills>>

\* int() of an empty tracker raises, and so does loading what is not whole.
ResumeRaises ==
  /\ pc = "down"
  /\ \/ tracker = Torn
     \/ tracker \in Steps /\ (actor[tracker] \in Missing \/ data[tracker] = Torn)
  /\ pc' = "raised"
  /\ UNCHANGED <<memory, disk, kills>>

BeginEpoch ==
  /\ pc = "epoch"
  /\ epoch < EffectiveEpochs
  /\ yieldedAny' = FALSE
  /\ pc' = "fetch"
  /\ UNCHANGED <<globalSteps, epoch, position, weights, savedPaths, disk, kills>>

LoopEnds ==
  /\ pc = "epoch"
  /\ epoch >= EffectiveEpochs
  /\ pc' = "returned"
  /\ UNCHANGED <<memory, disk, kills>>

\* The batch is trained on in the same step: nothing outside the process
\* changes before the checkpoint.
TrainBatch ==
  /\ pc = "fetch"
  /\ position < EpochLength
  /\ position' = position + 1
  /\ yieldedAny' = TRUE
  /\ weights' = Append(weights, position + 1)
  /\ pc' = "trained"
  /\ UNCHANGED <<globalSteps, epoch, savedPaths, disk, kills>>

EpochEnds ==
  /\ position' = 0
  /\ epoch' = epoch + 1
  /\ pc' = "epoch"

ForgetEpoch == EpochEnds   \* mutant: the exhausted snapshot ends the epoch

\* StopIteration before the first batch: the snapshot was taken at the end of
\* an epoch, and the dataloader starts over.
RecoverExhausted ==
  /\ position' = 0
  /\ UNCHANGED <<pc, epoch>>

StopIteration ==
  /\ pc = "fetch"
  /\ position = EpochLength
  /\ IF yieldedAny THEN EpochEnds ELSE RecoverExhausted
  /\ UNCHANGED <<globalSteps, yieldedAny, weights, savedPaths, disk, kills>>

-----------------------------------------------------------------------------
\* Saving is due at every SaveFreq-th step and at the last; the third condition
\* (the capacity is about to expire) may hold at any step.
Checkpoint ==
  /\ pc = "trained"
  /\ pc' = "makingRoom"
  /\ UNCHANGED <<memory, disk, kills>>

NoCheckpoint ==
  /\ pc = "trained"
  /\ ~IsLastStep /\ CurrentStep % SaveFreq # 0
  /\ pc' = "stepDone"
  /\ UNCHANGED <<memory, disk, kills>>

\* How many of this process's checkpoints are too many when one is added.
Excess ==
  IF Len(savedPaths) < MaxToKeep THEN 0 ELSE Len(savedPaths) + 1 - MaxToKeep

NewestSaved ==   \* mutant: the wrong end of the list
  {savedPaths[i] : i \in Len(savedPaths) - Excess + 1 .. Len(savedPaths)}

OldestSaved == {savedPaths[i] : i \in 1..Excess}

\* Removes the actor's directory alone: data.pt stays.
RemoveOldest ==
  actor' = [n \in Steps |-> IF n \in OldestSaved THEN Absent ELSE actor[n]]

Kept == SubSeq(savedPaths, Excess + 1, Len(savedPaths))

\* ensure_checkpoint_capacity: one place is made before the save, unless a
\* single checkpoint is kept.
MakeRoom ==
  /\ pc = "makingRoom"
  /\ IF MaxToKeep > 1 THEN RemoveOldest /\ savedPaths' = Kept
     ELSE UNCHANGED <<actor, savedPaths>>
  /\ pc' = "openActor"
  /\ UNCHANGED <<position, weights, training, data, tracker, kills>>

WriteActor ==
  /\ \/ /\ pc = "openActor"
        /\ actor' = [actor EXCEPT ![CurrentStep] = Torn]
        /\ pc' = "closeActor"
     \/ /\ pc = "closeActor"
        /\ actor' = [actor EXCEPT ![CurrentStep] = weights]
        /\ pc' = "register"
  /\ UNCHANGED <<memory, data, tracker, kills>>

\* register_checkpoint: the limit is enforced after the save.
Register ==
  /\ pc = "register"
  /\ RemoveOldest
  /\ savedPaths' = Append(Kept, CurrentStep)
  /\ pc' = "openData"
  /\ UNCHANGED <<position, weights, training, data, tracker, kills>>

StateBeforeFetch == position - 1   \* mutant: the snapshot misses the batch

DataloaderState == position

WriteData ==
  /\ \/ /\ pc = "openData"
        /\ data' = [data EXCEPT ![CurrentStep] = Torn]
        /\ pc' = "closeData"
     \/ /\ pc = "closeData"
        /\ data' = [data EXCEPT ![CurrentStep] = DataloaderState]
        /\ pc' = "openTracker"
  /\ UNCHANGED <<memory, actor, tracker, kills>>

WriteTracker ==
  /\ \/ /\ pc = "openTracker"
        /\ tracker' = Torn
        /\ pc' = "closeTracker"
     \/ /\ pc = "closeTracker"
        /\ tracker' = CurrentStep
        /\ pc' = "stepDone"
  /\ UNCHANGED <<memory, actor, data, kills>>

-----------------------------------------------------------------------------
StepDone ==
  /\ pc = "stepDone"
  /\ globalSteps' = CurrentStep
  /\ pc' = IF IsLastStep THEN "returned" ELSE "fetch"
  /\ UNCHANGED <<epoch, position, yieldedAny, weights, savedPaths, disk, kills>>

\* The process dies and forgets; it is started again with the same command.
Kill ==
  /\ pc \notin {"down", "returned", "raised"}
  /\ kills < MaxKills
  /\ pc' = "down"
  /\ globalSteps' = 0 /\ epoch' = 0 /\ position' = 0 /\ yieldedAny' = FALSE
  /\ weights' = <<>> /\ savedPaths' = <<>>
  /\ kills' = kills + 1
  /\ UNCHANGED disk

ProgramStep ==
  \/ StartFromScratch \/ Resume \/ ResumeRaises
  \/ BeginEpoch \/ LoopEnds \/ TrainBatch \/ StopIteration
  \/ NoCheckpoint \/ Checkpoint
  \/ MakeRoom \/ WriteActor \/ Register \/ WriteData \/ WriteTracker
  \/ StepDone

Next == ProgramStep \/ Kill

Spec == Init /\ [][Next]_vars

-----------------------------------------------------------------------------
TypeOK ==
  /\ pc \in {"down", "epoch", "fetch", "trained", "makingRoom", "openActor", "closeActor",
             "register", "openData", "closeData", "openTracker", "closeTracker", "stepDone",
             "returned", "raised"}
  /\ globalSteps \in Nat /\ position \in Nat /\ kills \in Nat
  /\ weights \in Seq(Nat) /\ savedPaths \in Seq(Nat)
  /\ actor \in [Steps -> Missing \cup Seq(Nat)]
  /\ data \in [Steps -> Missing \cup Nat]
  /\ tracker \in Missing \cup Nat

Whole(n) == actor[n] \notin Missing /\ data[n] \notin Missing

\* Whenever the process is killed, the checkpoint the tracker names can be
\* loaded: the actor and the dataloader were written, and not yet removed.
\* Hence a restart raises only when the kill hit the write of the tracker
\* itself, and then a checkpoint that can be loaded is on the disk.
TrackedCheckpointIsWhole ==
  /\ tracker \in Steps => Whole(tracker)
  /\ pc = "raised" => tracker = Torn /\ \E n \in Steps : Whole(n)

\* Across kills and restarts the surviving weights saw every batch of every
\* epoch once and in order: no batch is repeated or skipped by a resume.
EveryBatchOnceInOrder ==
  \A i \in 1..Len(weights) : weights[i] = 1 + ((i - 1) % EpochLength)

\* The job does not return before its last step is trained and its
\* checkpoint is the one to resume from.
ReturnsAfterLastStep ==
  pc = "returned" => globalSteps >= TotalSteps /\ tracker = globalSteps
=============================================================================
