---------------------------- MODULE StrictTrainer ----------------------------
(***************************************************************************)
(* FullyAsyncTrainer in strict-async mode (fully_async_trainer.py) and the *)
(* sync_weights call it waits for (param_sync.py).                         *)
(*                                                                         *)
(* fit() is sequential and blocks on every remote call, so one program     *)
(* counter covers trainer and synchronizer.  Actions are parameterised by  *)
(* the answers of the components they call; StrictAsync supplies them.     *)
(***************************************************************************)
EXTENDS Naturals, Sequences

CONSTANTS
  RequiredSamples,  (* ppo_mini_batch_size * require_batches *)
  SyncStep,         (* trigger_parameter_sync_step *)
  TestFreq,         (* rollout.test_freq *)
  ResumeVersion     (* what load_checkpoint returned; 0 without one *)

ASSUME TrainerAssumption ==
  /\ RequiredSamples \in Nat \ {0}
  /\ SyncStep \in Nat \ {0}
  /\ TestFreq \in Nat \ {0}
  /\ ResumeVersion \in Nat

VARIABLES
  trainer,         (* where fit() or sync_weights is *)
  batch,           (* scored_samples *)
  consumedCount,   (* how many of the batch are marked consumed *)
  localStep,       (* local_trigger_step *)
  trainerVersion,  (* current_param_version *)
  weights,         (* version of the weights in the rollout engine *)
  finishing,       (* the final validation is under way *)
  givenUp,         (* the samples of the batch that was not full: history *)
  trained          (* <<sample, version>> of every optimizer step: history *)

trainerVars == <<trainer, batch, consumedCount, localStep, trainerVersion,
                 weights, finishing, givenUp, trained>>

TrainerInit ==
  /\ trainer = "initialSync" /\ batch = <<>> /\ consumedCount = 0
  /\ localStep = 1 /\ trainerVersion = ResumeVersion
  /\ weights = ResumeVersion /\ finishing = FALSE
  /\ givenUp = {} /\ trained = {}

-----------------------------------------------------------------------------
(* _get_scored_samples_from_queue *)

CollectSample(s) ==
  /\ trainer = "collect"
  /\ batch' = Append(batch, s)
  /\ trainer' = IF Len(batch') = RequiredSamples THEN "consume" ELSE "collect"
  /\ UNCHANGED <<consumedCount, localStep, trainerVersion, weights, finishing,
                 givenUp, trained>>

(* A batch that is not full when the end marker arrives is given up. *)
CollectEnd ==
  /\ trainer = "collect"
  /\ batch' = <<>>
  /\ givenUp' = givenUp \union {batch[i] : i \in DOMAIN batch}
  /\ trainer' = "finish"
  /\ UNCHANGED <<consumedCount, localStep, trainerVersion, weights, finishing,
                 trained>>

(* mutant: the last sample of a batch is not marked *)
ConsumedButLast(ok) ==
  /\ trainer = "consume"
  /\ consumedCount' = consumedCount + 1
  /\ trainer' = IF ~ok THEN "failed"
                ELSE IF consumedCount' + 1 >= RequiredSamples THEN "train"
                ELSE "consume"
  /\ UNCHANGED <<batch, localStep, trainerVersion, weights, finishing,
                 givenUp, trained>>

(* ok: mark_consumed returned, rather than raised KeyError. *)
ConsumedNext(ok) ==
  /\ trainer = "consume"
  /\ consumedCount' = consumedCount + 1
  /\ trainer' = IF ~ok THEN "failed"
                ELSE IF consumedCount' = RequiredSamples THEN "train"
                ELSE "consume"
  /\ UNCHANGED <<batch, localStep, trainerVersion, weights, finishing,
                 givenUp, trained>>

-----------------------------------------------------------------------------
(* The optimizer step and _trigger_parameter_sync_after_step. *)

SyncDueLate == localStep > SyncStep
SyncDue == localStep >= SyncStep

Train ==
  /\ trainer = "train"
  /\ trained' =
       trained \union {<<batch[i], trainerVersion>> : i \in DOMAIN batch}
  /\ batch' = <<>>
  /\ consumedCount' = 0
  /\ \/ /\ ~SyncDue
        /\ localStep' = localStep + 1
        /\ trainer' = "collect"
        /\ UNCHANGED trainerVersion
     \/ /\ SyncDue
        /\ localStep' = 1
        /\ trainerVersion' = trainerVersion + 1
        /\ trainer' = "waitValid"
  /\ UNCHANGED <<weights, finishing, givenUp>>

-----------------------------------------------------------------------------
(* sync_weights: pause() has been called in "waitValid" and has returned.  *)

MoveTo(from, to) ==
  /\ trainer = from
  /\ trainer' = to
  /\ UNCHANGED <<batch, consumedCount, localStep, trainerVersion, weights,
                 finishing, givenUp, trained>>

CallPause == MoveTo("waitValid", "version")

(* _sync_window_coordinator_version, given the coordinator's version and   *)
(* whether it is ready_for_sync.  Before training no window can be ready.  *)
VersionIsCurrent(coordinatorVersion) ==
  trainerVersion <= 0 \/ trainerVersion = coordinatorVersion

VersionMayAdvance(coordinatorVersion) ==
  trainerVersion > 0 /\ trainerVersion > coordinatorVersion

KeepVersion == MoveTo("version", "weights")

(* Past the advance a version other than the requested one still raises. *)
VersionAdvanced(newVersion) ==
  MoveTo("version",
         IF newVersion = trainerVersion THEN "weights" ELSE "failed")

VersionRefused(coordinatorVersion, ready) ==
  /\ ~VersionIsCurrent(coordinatorVersion)
  /\ trainerVersion < coordinatorVersion \/ ~ready
  /\ MoveTo("version", "failed")

InitialSync(coordinatorVersion) ==
  MoveTo("initialSync",
         IF VersionIsCurrent(coordinatorVersion)
         THEN "collect" ELSE "initFailed")

SyncWeights ==
  /\ trainer = "weights"
  /\ weights' = trainerVersion
  /\ trainer' = IF finishing THEN "finalWait" ELSE "collect"
  /\ UNCHANGED <<batch, consumedCount, localStep, trainerVersion, finishing,
                 givenUp, trained>>

-----------------------------------------------------------------------------
(* The end of fit(): _maybe_run_final_validation. *)

FinalValidationNeeded ==
  trainerVersion % TestFreq # 0 \/ localStep > 1

BumpAtEndAlways == TRUE   (* mutant: the version is bumped without a step *)
BumpAtEnd == localStep > 1

FinalValidation ==
  /\ trainer = "finish"
  /\ finishing' = TRUE
  /\ \/ /\ ~FinalValidationNeeded
        /\ trainer' = "done"
        /\ UNCHANGED <<localStep, trainerVersion>>
     \/ /\ FinalValidationNeeded
        /\ ~BumpAtEnd
        /\ trainer' = "waitValid"
        /\ UNCHANGED <<localStep, trainerVersion>>
     \/ /\ FinalValidationNeeded
        /\ BumpAtEnd
        /\ trainerVersion' = trainerVersion + 1
        /\ localStep' = 1
        /\ trainer' = "waitValid"
  /\ UNCHANGED <<batch, consumedCount, weights, givenUp, trained>>

FinalWait == MoveTo("finalWait", "done")

TrainerTypeOK ==
  /\ trainer \in {"initialSync", "initFailed", "collect", "consume", "train",
                  "waitValid", "version", "weights", "finish", "finalWait",
                  "done", "failed"}
  /\ consumedCount \in 0 .. RequiredSamples
  /\ localStep \in 1 .. SyncStep
  /\ trainerVersion \in Nat
  /\ weights \in Nat
  /\ finishing \in BOOLEAN
=============================================================================
