------------------------ MODULE SyncTraining_proofs ------------------------
(***************************************************************************)
(* If more than one checkpoint is kept, the checkpoint that the tracker    *)
(* names can be loaded at any moment, whatever the lengths, frequencies    *)
(* and the number of kills.                                                *)
(*                                                                         *)
(* The argument: the tracker's step is the newest of the checkpoints this  *)
(* process saved, or the one before it while a new one is being completed, *)
(* and retention takes the oldest; the files of the step that is being     *)
(* saved are another's, and are whole when the tracker is written.  A torn *)
(* tracker is that of a step whose files are whole.                        *)
(***************************************************************************)
EXTENDS SyncTraining, SequenceTheorems, TLAPS

Running == pc \notin {"down", "raised"}

\* The step is in savedPaths and the tracker does not name it yet.
Completing == pc \in {"openData", "closeData", "openTracker", "closeTracker"}

\* Saved steps are in the past, but for the newest.
SavedInPast ==
  \A i \in 1..Len(savedPaths) :
    \/ savedPaths[i] <= globalSteps
    \/ /\ Completing \/ pc = "stepDone"
       /\ i = Len(savedPaths) /\ savedPaths[i] = CurrentStep

TrackerInPast ==
  tracker \in Nat =>
    \/ tracker <= globalSteps
    \/ pc = "stepDone" /\ tracker = CurrentStep

TrackerIsNewest ==
  tracker \in Nat =>
    \A i \in 1..Len(savedPaths) : savedPaths[i] = tracker =>
      \/ i = Len(savedPaths)
      \/ Completing /\ i = Len(savedPaths) - 1

\* What is written before the tracker.
WholeBeforeTracked ==
  CurrentStep \in Steps =>
    /\ pc = "register" \/ Completing => actor[CurrentStep] \notin Missing
    /\ pc \in {"openTracker", "closeTracker"} => data[CurrentStep] \notin Missing

\* The tracker names a step that can be loaded.
TrackerLoads == tracker \in Steps => Whole(tracker)

CheckpointInv ==
  /\ TypeOK
  /\ TrackerLoads
  /\ Running => SavedInPast /\ TrackerInPast /\ TrackerIsNewest /\ WholeBeforeTracked
  /\ pc = "down" => savedPaths = <<>>

\* What retention keeps, and that at least the newest is among it.
LEMMA KeptFacts ==
  ASSUME TypeOK, MaxToKeep > 1
  PROVE  /\ Excess \in Nat
         /\ Excess < Len(savedPaths) \/ (Excess = 0 /\ Len(savedPaths) = 0)
         /\ Kept \in Seq(Nat)
         /\ Len(Kept) = Len(savedPaths) - Excess
         /\ \A i \in 1..Len(Kept) : Kept[i] = savedPaths[i + Excess]
<1>1. MaxToKeep \in Nat /\ Len(savedPaths) \in Nat /\ savedPaths \in Seq(Nat)
    BY SyncTrainingAssumption, LenProperties DEF TypeOK
<1>2. /\ Excess \in Nat
      /\ Excess < Len(savedPaths) \/ (Excess = 0 /\ Len(savedPaths) = 0)
    BY <1>1 DEF Excess
<1>3. /\ Kept \in Seq(Nat)
      /\ Len(Kept) = Len(savedPaths) - Excess
      /\ \A i \in 1..Len(Kept) : Kept[i] = savedPaths[i + Excess]
    BY <1>1, <1>2, SMTT(30) DEF Kept
<1> QED BY <1>2, <1>3

LEMMA RemoveFacts ==
  ASSUME TypeOK, RemoveOldest
  PROVE  /\ actor' \in [Steps -> Missing \cup Seq(Nat)]
         /\ \A n \in Steps : n \notin OldestSaved => actor'[n] = actor[n]
BY DEF TypeOK, RemoveOldest, Missing

LEMMA InitCheckpoint == Init => CheckpointInv
BY SyncTrainingAssumption
DEF Init, CheckpointInv, TypeOK, TrackerLoads, Whole, Running, Missing, Steps

\* Actions that touch neither disk, savedPaths nor globalSteps.
LEMMA QuietSteps ==
  ASSUME CheckpointInv, UNCHANGED <<disk, savedPaths, globalSteps>>, TypeOK',
         \/ pc' = pc
         \/ pc' = "raised"
         \/ /\ pc \in {"epoch", "fetch", "trained"}
            /\ pc' \in {"epoch", "fetch", "trained", "makingRoom", "stepDone", "returned"}
  PROVE  CheckpointInv'
<1>1. TrackerLoads'
    BY DEF CheckpointInv, TrackerLoads, Whole, disk
<1>2. Running' => SavedInPast' /\ TrackerInPast' /\ TrackerIsNewest' /\ WholeBeforeTracked'
    BY DEF CheckpointInv, Running, Completing, CurrentStep, SavedInPast, TrackerInPast,
           TrackerIsNewest, WholeBeforeTracked, disk
<1>3. pc' = "down" => savedPaths' = <<>>
    BY DEF CheckpointInv
<1> QED BY <1>1, <1>2, <1>3 DEF CheckpointInv

LEMMA StartSteps ==
  ASSUME CheckpointInv, StartFromScratch \/ Resume
  PROVE  CheckpointInv'
<1>1. TypeOK'
  <2>1. CASE StartFromScratch
      BY <2>1 DEF CheckpointInv, StartFromScratch, TypeOK, memory, disk, training
  <2>2. CASE Resume
      BY <2>2 DEF CheckpointInv, Resume, TypeOK, Missing, Steps, disk
  <2> QED BY <2>1, <2>2
<1>2. pc' = "epoch" /\ UNCHANGED disk /\ savedPaths' = <<>>
    BY DEF CheckpointInv, StartFromScratch, Resume, memory, disk
<1>3. TrackerInPast'
  <2>1. CASE StartFromScratch
      BY <2>1, SyncTrainingAssumption DEF StartFromScratch, TrackerInPast, disk
  <2>2. CASE Resume
      BY <2>2 DEF CheckpointInv, TypeOK, Resume, TrackerInPast, Steps, disk
  <2> QED BY <2>1, <2>2
<1>4. TrackerLoads'
    BY <1>2 DEF CheckpointInv, TrackerLoads, Whole, disk
<1>5. SavedInPast' /\ TrackerIsNewest' /\ WholeBeforeTracked'
    BY <1>2 DEF SavedInPast, TrackerIsNewest, WholeBeforeTracked, Completing
<1> QED BY <1>1, <1>2, <1>3, <1>4, <1>5 DEF CheckpointInv

\* Retention removes only what the tracker does not name, in the past.
LEMMA OldestAreBehind ==
  ASSUME CheckpointInv, MaxToKeep > 1, pc \in {"makingRoom", "register"}
  PROVE  \A n \in OldestSaved : n <= globalSteps /\ n # tracker
<1> SUFFICES ASSUME NEW i \in 1..Excess
             PROVE  savedPaths[i] <= globalSteps /\ savedPaths[i] # tracker
    BY DEF OldestSaved
<1>0. TypeOK /\ Len(savedPaths) \in Nat
    BY LenProperties DEF CheckpointInv, TypeOK
<1>1. i \in 1..Len(savedPaths) /\ i # Len(savedPaths)
    BY <1>0, KeptFacts
<1>2. savedPaths[i] \in Nat
    BY <1>1 DEF CheckpointInv, TypeOK
<1> QED BY <1>1, <1>2 DEF CheckpointInv, Running, SavedInPast, TrackerIsNewest, Completing

LEMMA RemovalKeepsTracked ==
  ASSUME CheckpointInv, MaxToKeep > 1, pc \in {"makingRoom", "register"},
         RemoveOldest, UNCHANGED <<data, tracker>>
  PROVE  TrackerLoads'
BY OldestAreBehind, RemoveFacts DEF CheckpointInv, TrackerLoads, Whole

LEMMA MakeRoomStep ==
  ASSUME CheckpointInv, MaxToKeep > 1, MakeRoom
  PROVE  CheckpointInv'
<1>1. /\ pc = "makingRoom" /\ pc' = "openActor" /\ RemoveOldest /\ savedPaths' = Kept
      /\ UNCHANGED <<position, weights, globalSteps, data, tracker, kills>>
    BY DEF MakeRoom, training
<1>2. TypeOK'
    BY <1>1, KeptFacts, RemoveFacts DEF CheckpointInv, TypeOK
<1>3. TrackerLoads'
    BY <1>1, RemovalKeepsTracked
<1>4. ASSUME NEW i \in 1..Len(savedPaths')
      PROVE  /\ i + Excess \in 1..Len(savedPaths)
             /\ savedPaths'[i] = savedPaths[i + Excess]
             /\ i + Excess = Len(savedPaths) => i = Len(savedPaths')
  <2>1. TypeOK /\ Len(savedPaths) \in Nat
      BY LenProperties DEF CheckpointInv, TypeOK
  <2>2. /\ Excess \in Nat /\ Len(savedPaths') = Len(savedPaths) - Excess
        /\ i \in 1..Len(Kept)
      BY <1>1, <2>1, KeptFacts
  <2>3. savedPaths'[i] = savedPaths[i + Excess]
      BY <1>1, <2>1, <2>2, KeptFacts
  <2>4. i \in 1..(Len(savedPaths) - Excess)
      BY <2>2
  <2> QED BY ONLY <2>1, <2>2, <2>3, <2>4
<1>5. SavedInPast'
    BY <1>1, <1>4 DEF CheckpointInv, Running, SavedInPast, Completing
<1>6. TrackerIsNewest'
    BY <1>1, <1>4 DEF CheckpointInv, Running, TrackerIsNewest, Completing
<1>7. TrackerInPast' /\ WholeBeforeTracked'
    BY <1>1 DEF CheckpointInv, Running, TrackerInPast, WholeBeforeTracked, Completing
<1> QED BY <1>1, <1>2, <1>3, <1>5, <1>6, <1>7 DEF CheckpointInv

LEMMA RegisterStep ==
  ASSUME CheckpointInv, MaxToKeep > 1, Register
  PROVE  CheckpointInv'
<1>1. /\ pc = "register" /\ pc' = "openData" /\ RemoveOldest
      /\ savedPaths' = Append(Kept, CurrentStep)
      /\ UNCHANGED <<position, weights, globalSteps, data, tracker, kills>>
    BY DEF Register, training
<1>2. CurrentStep \in Nat /\ CurrentStep' = CurrentStep /\ globalSteps \in Nat
    BY <1>1 DEF CheckpointInv, TypeOK, CurrentStep
<1>3. /\ savedPaths' \in Seq(Nat) /\ Len(savedPaths') = Len(Kept) + 1
      /\ savedPaths'[Len(Kept) + 1] = CurrentStep
      /\ \A i \in 1..Len(Kept) : savedPaths'[i] = Kept[i]
    BY <1>1, <1>2, KeptFacts, AppendProperties DEF CheckpointInv
<1>4. TypeOK'
    BY <1>1, <1>3, RemoveFacts DEF CheckpointInv, TypeOK
<1>5. TrackerLoads'
    BY <1>1, RemovalKeepsTracked
<1>6. ASSUME NEW i \in 1..Len(savedPaths'), i # Len(savedPaths')
      PROVE  /\ i + Excess \in 1..Len(savedPaths)
             /\ savedPaths'[i] = savedPaths[i + Excess]
             /\ i + Excess = Len(savedPaths) => i = Len(savedPaths') - 1
  <2>0. Len(savedPaths') = Len(Kept) + 1
      BY <1>3
  <2>1. /\ Len(savedPaths) \in Nat /\ Excess \in Nat /\ i \in Nat /\ i > 0
        /\ Len(Kept) = Len(savedPaths) - Excess /\ Len(Kept) \in Nat
      BY <1>3, <1>6, KeptFacts, LenProperties DEF CheckpointInv, TypeOK
  <2>2. i \in 1..Len(Kept)
      BY ONLY <1>6, <2>0, <2>1
  <2>3. savedPaths'[i] = Kept[i] /\ Kept[i] = savedPaths[i + Excess]
      BY <1>3, <2>2, KeptFacts DEF CheckpointInv
  <2>4. Len(savedPaths') = Len(savedPaths) - Excess + 1
      BY <1>3, <2>1
  <2>5. i + Excess \in 1..Len(savedPaths)
      BY <2>1, <2>2
  <2>6. i + Excess = Len(savedPaths) => i = Len(savedPaths') - 1
      BY <2>1, <2>4
  <2> QED BY <2>3, <2>5, <2>6
<1>7. SavedInPast'
  <2> SUFFICES ASSUME NEW i \in 1..Len(savedPaths')
               PROVE  \/ savedPaths'[i] <= globalSteps
                      \/ i = Len(savedPaths') /\ savedPaths'[i] = CurrentStep
      BY <1>1, <1>2 DEF SavedInPast, Completing
  <2>1. CASE i = Len(savedPaths')
      BY <1>3, <2>1, KeptFacts, LenProperties DEF CheckpointInv
  <2>2. CASE i # Len(savedPaths')
      BY <1>1, <1>6, <2>2 DEF CheckpointInv, Running, SavedInPast, Completing
  <2> QED BY <2>1, <2>2
<1>8. TrackerIsNewest'
  <2> SUFFICES ASSUME tracker \in Nat, NEW i \in 1..Len(savedPaths'),
                      savedPaths'[i] = tracker, i # Len(savedPaths')
               PROVE  i = Len(savedPaths') - 1
      BY <1>1 DEF TrackerIsNewest, Completing
  <2> QED BY <1>1, <1>6 DEF CheckpointInv, Running, TrackerIsNewest, Completing
<1>9. TrackerInPast'
    BY <1>1 DEF CheckpointInv, Running, TrackerInPast
<1>10. WholeBeforeTracked'
  <2>1. CurrentStep \notin OldestSaved
      BY <1>1, <1>2, OldestAreBehind DEF CurrentStep
  <2> QED BY <1>1, <1>2, <2>1, RemoveFacts
          DEF CheckpointInv, Running, WholeBeforeTracked, Completing
<1> QED BY <1>1, <1>4, <1>5, <1>7, <1>8, <1>9, <1>10 DEF CheckpointInv

LEMMA WriteActorStep ==
  ASSUME CheckpointInv, WriteActor
  PROVE  CheckpointInv'
<1>1. PICK v \in {Torn, weights} : actor' = [actor EXCEPT ![CurrentStep] = v]
    BY DEF WriteActor
<1>2. /\ pc \in {"openActor", "closeActor"} /\ pc' \in {"closeActor", "register"}
      /\ pc' = "register" => actor' = [actor EXCEPT ![CurrentStep] = weights]
      /\ UNCHANGED <<memory, data, tracker, kills>>
    BY DEF WriteActor
<1>3. UNCHANGED <<position, weights, savedPaths, globalSteps>>
    BY <1>2 DEF memory, training
<1>4. TypeOK'
    BY <1>1, <1>2, <1>3 DEF CheckpointInv, TypeOK, Missing
<1>5. globalSteps \in Nat /\ CurrentStep' = CurrentStep /\ CurrentStep = globalSteps + 1
    BY <1>3 DEF CheckpointInv, TypeOK, CurrentStep
<1>6. weights \notin Missing
    BY SyncTrainingAssumption, <1>4, <1>3 DEF TypeOK, Missing, CheckpointInv
<1>7. TrackerLoads'
  <2> SUFFICES ASSUME tracker \in Steps
               PROVE  actor'[tracker] \notin Missing /\ data[tracker] \notin Missing
      BY <1>2 DEF TrackerLoads, Whole
  <2>1. tracker # CurrentStep
      BY <1>2, <1>5 DEF CheckpointInv, Running, TrackerInPast, Steps
  <2> QED BY <1>1, <2>1 DEF CheckpointInv, TypeOK, TrackerLoads, Whole
<1>8. SavedInPast' /\ TrackerInPast' /\ TrackerIsNewest'
    BY <1>2, <1>3 DEF CheckpointInv, Running, SavedInPast, TrackerInPast, TrackerIsNewest,
                      Completing
<1>9. WholeBeforeTracked'
    BY <1>2, <1>5, <1>6 DEF CheckpointInv, TypeOK, WholeBeforeTracked, Completing
<1> QED BY <1>2, <1>4, <1>7, <1>8, <1>9 DEF CheckpointInv

LEMMA WriteDataStep ==
  ASSUME CheckpointInv, WriteData
  PROVE  CheckpointInv'
<1>1. PICK v \in {Torn, position} : data' = [data EXCEPT ![CurrentStep] = v]
    BY DEF WriteData, DataloaderState
<1>2. /\ pc \in {"openData", "closeData"} /\ pc' \in {"closeData", "openTracker"}
      /\ pc' = "openTracker" => data' = [data EXCEPT ![CurrentStep] = position]
      /\ UNCHANGED <<memory, actor, tracker, kills>>
    BY DEF WriteData, DataloaderState
<1>3. UNCHANGED <<position, weights, savedPaths, globalSteps>>
    BY <1>2 DEF memory, training
<1>4. TypeOK'
    BY <1>1, <1>2, <1>3 DEF CheckpointInv, TypeOK, Missing
<1>5. globalSteps \in Nat /\ CurrentStep' = CurrentStep /\ CurrentStep = globalSteps + 1
    BY <1>3 DEF CheckpointInv, TypeOK, CurrentStep
<1>6. position \notin Missing
    BY SyncTrainingAssumption DEF TypeOK, Missing, CheckpointInv
<1>7. TrackerLoads'
  <2> SUFFICES ASSUME tracker \in Steps
               PROVE  actor[tracker] \notin Missing /\ data'[tracker] \notin Missing
      BY <1>2 DEF TrackerLoads, Whole
  <2>1. tracker # CurrentStep
      BY <1>2, <1>5 DEF CheckpointInv, Running, TrackerInPast, Steps
  <2> QED BY <1>1, <2>1 DEF CheckpointInv, TypeOK, TrackerLoads, Whole
<1>8. SavedInPast' /\ TrackerInPast' /\ TrackerIsNewest'
    BY <1>2, <1>3, <1>5 DEF CheckpointInv, Running, SavedInPast, TrackerInPast,
                            TrackerIsNewest, Completing
<1>9. WholeBeforeTracked'
    BY <1>2, <1>5, <1>6 DEF CheckpointInv, Running, TypeOK, WholeBeforeTracked, Completing
<1> QED BY <1>2, <1>4, <1>7, <1>8, <1>9 DEF CheckpointInv

LEMMA WriteTrackerStep ==
  ASSUME CheckpointInv, WriteTracker
  PROVE  CheckpointInv'
<1>1. UNCHANGED <<position, weights, savedPaths, globalSteps, actor, data, kills>>
    BY DEF WriteTracker, memory, training
<1>2. globalSteps \in Nat /\ CurrentStep' = CurrentStep /\ CurrentStep = globalSteps + 1
    BY <1>1 DEF CheckpointInv, TypeOK, CurrentStep
<1>3. CASE pc = "openTracker" /\ tracker' = Torn /\ pc' = "closeTracker"
  <2>1. Torn \notin Nat
      BY SyncTrainingAssumption
  <2>2. TypeOK'
      BY <1>1, <1>3 DEF CheckpointInv, TypeOK, Missing
  <2>3. TrackerLoads' /\ TrackerInPast' /\ TrackerIsNewest'
      BY <1>3, <2>1 DEF TrackerLoads, Whole, TrackerInPast, TrackerIsNewest, Steps
  <2>4. SavedInPast' /\ WholeBeforeTracked'
      BY <1>1, <1>2, <1>3
         DEF CheckpointInv, Running, SavedInPast, WholeBeforeTracked, Completing
  <2> QED BY <1>3, <2>2, <2>3, <2>4 DEF CheckpointInv
<1>4. CASE pc = "closeTracker" /\ tracker' = CurrentStep /\ pc' = "stepDone"
  <2>1. TypeOK'
      BY <1>1, <1>2, <1>4 DEF CheckpointInv, TypeOK
  <2>2. TrackerLoads'
      BY <1>1, <1>4 DEF CheckpointInv, Running, TrackerLoads, Whole,
                        WholeBeforeTracked, Completing
  <2>3. TrackerInPast' /\ SavedInPast'
      BY <1>1, <1>2, <1>4 DEF CheckpointInv, Running, SavedInPast, TrackerInPast, Completing
  <2>4. TrackerIsNewest'
      BY <1>1, <1>2, <1>4 DEF CheckpointInv, Running, SavedInPast, TrackerIsNewest
  <2>5. WholeBeforeTracked'
      BY <1>4 DEF WholeBeforeTracked, Completing
  <2> QED BY <1>4, <2>1, <2>2, <2>3, <2>4, <2>5 DEF CheckpointInv
<1> QED BY <1>3, <1>4 DEF WriteTracker

LEMMA StepDoneStep ==
  ASSUME CheckpointInv, StepDone
  PROVE  CheckpointInv'
<1>1. /\ pc = "stepDone" /\ pc' \in {"returned", "fetch"}
      /\ globalSteps' = CurrentStep
      /\ UNCHANGED <<position, weights, savedPaths, actor, data, tracker, kills>>
    BY DEF StepDone, disk
<1>2. globalSteps \in Nat /\ CurrentStep = globalSteps + 1
    BY DEF CheckpointInv, TypeOK, CurrentStep
<1>3. TypeOK'
    BY <1>1, <1>2 DEF CheckpointInv, TypeOK
<1>4. TrackerLoads'
    BY <1>1 DEF CheckpointInv, TrackerLoads, Whole
<1>5. SavedInPast'
  <2> SUFFICES ASSUME NEW i \in 1..Len(savedPaths) PROVE savedPaths[i] <= CurrentStep
      BY <1>1 DEF SavedInPast
  <2>1. savedPaths[i] \in Nat
      BY DEF CheckpointInv, TypeOK
  <2> QED BY <1>1, <1>2, <2>1 DEF CheckpointInv, Running, SavedInPast, Completing
<1>6. TrackerInPast'
    BY <1>1, <1>2 DEF CheckpointInv, Running, TrackerInPast
<1>7. TrackerIsNewest' /\ WholeBeforeTracked'
    BY <1>1 DEF CheckpointInv, Running, TrackerIsNewest, WholeBeforeTracked, Completing
<1> QED BY <1>1, <1>3, <1>4, <1>5, <1>6, <1>7 DEF CheckpointInv

LEMMA KillStep ==
  ASSUME CheckpointInv, Kill
  PROVE  CheckpointInv'
BY DEF CheckpointInv, Kill, TypeOK, TrackerLoads, Whole, Running, disk

LEMMA StepCheckpoint ==
  ASSUME CheckpointInv, MaxToKeep > 1, [Next]_vars
  PROVE  CheckpointInv'
<1>1. CASE BeginEpoch \/ LoopEnds \/ TrainBatch \/ StopIteration
           \/ NoCheckpoint \/ Checkpoint \/ ResumeRaises \/ UNCHANGED vars
  <2>1. UNCHANGED <<disk, savedPaths, globalSteps>>
      BY <1>1 DEF BeginEpoch, LoopEnds, TrainBatch, StopIteration, NoCheckpoint, Checkpoint,
                  ResumeRaises, vars, memory, training
  <2>2. TypeOK'
    <3>1. pc' \in {"epoch", "fetch", "trained", "makingRoom", "stepDone", "returned",
                   "raised"} \/ pc' = pc
        BY <1>1 DEF BeginEpoch, LoopEnds, TrainBatch, StopIteration, EpochEnds,
                    RecoverExhausted, NoCheckpoint, Checkpoint, ResumeRaises, vars
    <3>2. kills' \in Nat
        BY <1>1 DEF CheckpointInv, TypeOK, BeginEpoch, LoopEnds, TrainBatch, StopIteration,
                    NoCheckpoint, Checkpoint, ResumeRaises, vars
    <3>3. position' \in Nat /\ weights' \in Seq(Nat)
      <4>1. CASE TrainBatch
          BY <4>1 DEF CheckpointInv, TypeOK, TrainBatch
      <4>2. CASE StopIteration
          BY <4>2 DEF CheckpointInv, TypeOK, StopIteration, EpochEnds, RecoverExhausted
      <4> QED BY <1>1, <4>1, <4>2 DEF CheckpointInv, TypeOK, BeginEpoch, LoopEnds,
                  NoCheckpoint, Checkpoint, ResumeRaises, vars, memory
    <3> QED BY <2>1, <3>1, <3>2, <3>3 DEF CheckpointInv, TypeOK, disk
  <2>3. \/ pc' = pc
        \/ pc' = "raised"
        \/ /\ pc \in {"epoch", "fetch", "trained"}
           /\ pc' \in {"epoch", "fetch", "trained", "makingRoom", "stepDone", "returned"}
      BY <1>1 DEF BeginEpoch, LoopEnds, TrainBatch, StopIteration, EpochEnds,
                  RecoverExhausted, NoCheckpoint, Checkpoint, ResumeRaises, vars
  <2> QED BY <2>1, <2>2, <2>3, QuietSteps
<1> QED BY <1>1, StartSteps, MakeRoomStep, WriteActorStep, RegisterStep, WriteDataStep,
           WriteTrackerStep, StepDoneStep, KillStep DEF Next, ProgramStep

-----------------------------------------------------------------------------
\* The bound of Steps suffices: only a step that the tracker names and that a
\* kill kept from returning takes the count past the last one.
StepsSuffice ==
  /\ kills <= MaxKills
  /\ pc \notin {"raised", "returned"} => CurrentStep <= TotalSteps + kills
  /\ tracker \in Nat => tracker <= TotalSteps + kills
  /\ pc = "down" /\ tracker \in Nat => tracker < TotalSteps + kills

\* The tracker is torn while it is written, or since the kill that stopped it.
TornIsBesideWhole ==
  tracker = Torn =>
    /\ pc \in {"closeTracker", "down", "raised"}
    /\ \E n \in Steps : Whole(n)

TornInv ==
  CheckpointInv /\ StepsSuffice /\ TornIsBesideWhole /\ (pc = "raised" => tracker = Torn)

LEMMA StepBound == TotalSteps \in Nat /\ TotalSteps # 0 /\ MaxKills \in Nat
BY SyncTrainingAssumption, SMTT(30) DEF TotalSteps

LEMMA InitTorn == Init => TornInv
<1> SUFFICES ASSUME Init PROVE TornInv
    OBVIOUS
<1>1. CheckpointInv
    BY InitCheckpoint
<1>2. tracker # Torn /\ tracker \notin Nat
    BY SyncTrainingAssumption DEF Init
<1>3. StepsSuffice
    BY <1>2, StepBound DEF Init, StepsSuffice, CurrentStep
<1> QED BY <1>1, <1>2, <1>3 DEF Init, TornInv, TornIsBesideWhole

\* The count of steps leaves its bound alone, an action at a time.
LEMMA CountStep ==
  ASSUME CheckpointInv, StepsSuffice, [Next]_vars
  PROVE  StepsSuffice'
<1>1. globalSteps \in Nat /\ kills \in Nat /\ TotalSteps \in Nat /\ TotalSteps # 0
    BY StepBound DEF CheckpointInv, TypeOK
<1>2. CASE Resume
  <2>1. /\ tracker \in Nat /\ pc = "down" /\ globalSteps' = tracker /\ pc' = "epoch"
        /\ UNCHANGED <<tracker, kills>>
      BY <1>2 DEF Resume, Steps, disk
  <2> QED BY <1>1, <2>1 DEF StepsSuffice, CurrentStep
<1>3. CASE WriteTracker
  <2>1. /\ pc \in {"openTracker", "closeTracker"} /\ pc' \in {"closeTracker", "stepDone"}
        /\ tracker' \in {Torn, CurrentStep} /\ UNCHANGED <<globalSteps, kills>>
      BY <1>3 DEF WriteTracker, memory, training
  <2>2. tracker' \in Nat => tracker' = CurrentStep
      BY <2>1, SyncTrainingAssumption
  <2> QED BY <1>1, <2>1, <2>2 DEF StepsSuffice, CurrentStep
<1>4. CASE StepDone
  <2>1. /\ pc = "stepDone" /\ pc' = IF CurrentStep >= TotalSteps THEN "returned" ELSE "fetch"
        /\ globalSteps' = CurrentStep /\ UNCHANGED <<tracker, kills>>
      BY <1>4 DEF StepDone, IsLastStep, disk
  <2> QED BY <1>1, <2>1 DEF StepsSuffice, CurrentStep
<1>5. CASE Kill
  <2>1. /\ pc \notin {"down", "returned", "raised"} /\ pc' = "down" /\ globalSteps' = 0
        /\ kills < MaxKills /\ kills' = kills + 1 /\ UNCHANGED tracker
      BY <1>5 DEF Kill, disk
  <2> QED BY <1>1, <2>1, StepBound DEF StepsSuffice, CurrentStep
<1>6. ASSUME UNCHANGED <<globalSteps, tracker, kills>>, pc' # "down" \/ pc' = pc,
             pc' \notin {"raised", "returned"} => pc \notin {"raised", "returned"}
      PROVE  StepsSuffice'
    BY <1>6 DEF StepsSuffice, CurrentStep
<1>7. CASE StartFromScratch \/ ResumeRaises \/ BeginEpoch \/ LoopEnds \/ TrainBatch
           \/ StopIteration \/ NoCheckpoint \/ Checkpoint \/ UNCHANGED vars
  <2>1. UNCHANGED <<globalSteps, tracker, kills>>
      BY <1>7 DEF StartFromScratch, ResumeRaises, BeginEpoch, LoopEnds, TrainBatch,
                  StopIteration, NoCheckpoint, Checkpoint, vars, memory, training, disk
  <2>2. /\ pc' # "down" \/ pc' = pc
        /\ pc' \notin {"raised", "returned"} => pc \notin {"raised", "returned"}
      BY <1>7 DEF StartFromScratch, ResumeRaises, BeginEpoch, LoopEnds, TrainBatch,
                  StopIteration, EpochEnds, RecoverExhausted, NoCheckpoint, Checkpoint, vars
  <2> QED BY <1>6, <2>1, <2>2
<1>8. CASE MakeRoom \/ WriteActor \/ Register \/ WriteData
  <2>1. UNCHANGED <<globalSteps, tracker, kills>>
      BY <1>8 DEF MakeRoom, WriteActor, Register, WriteData, memory, training
  <2>2. pc' # "down" /\ pc \notin {"raised", "returned"}
      BY <1>8 DEF MakeRoom, WriteActor, Register, WriteData
  <2> QED BY <1>6, <2>1, <2>2
<1> QED BY <1>2, <1>3, <1>4, <1>5, <1>7, <1>8 DEF Next, ProgramStep

LEMMA TornStep ==
  ASSUME TornInv, CheckpointInv', [Next]_vars
  PROVE  TornInv'
<1>1. StepsSuffice'
    BY CountStep DEF TornInv
<1>2. TornIsBesideWhole'
  <2>1. CASE WriteTracker
    <3>1. /\ UNCHANGED <<actor, data>>
          /\ \/ pc = "openTracker" /\ pc' = "closeTracker"
             \/ tracker' = CurrentStep /\ CurrentStep \in Nat
        BY <2>1 DEF WriteTracker, TornInv, CheckpointInv, TypeOK, CurrentStep
    <3>2. CASE pc = "openTracker" /\ pc' = "closeTracker"
      <4>1. CurrentStep \in Steps
          BY <3>2, StepBound
             DEF TornInv, StepsSuffice, CheckpointInv, TypeOK, Steps, CurrentStep
      <4>2. Whole(CurrentStep)
          BY <3>2, <4>1 DEF TornInv, CheckpointInv, Running, WholeBeforeTracked, Completing, Whole
      <4> QED BY <3>1, <3>2, <4>1, <4>2 DEF TornIsBesideWhole, Whole
    <3>3. CASE tracker' = CurrentStep /\ CurrentStep \in Nat
        BY <3>3, SyncTrainingAssumption DEF TornIsBesideWhole
    <3> QED BY <3>1, <3>2, <3>3
  <2>2. CASE StartFromScratch \/ Resume
      BY <2>2, SyncTrainingAssumption
         DEF StartFromScratch, Resume, TornIsBesideWhole, Steps, disk
  <2>3. ASSUME UNCHANGED disk, pc \in {"closeTracker", "down", "raised"} =>
                                 pc' \in {"down", "raised"} \/ pc' = pc
        PROVE  TornIsBesideWhole'
      BY <2>3 DEF TornInv, TornIsBesideWhole, Whole, disk
  <2>4. CASE ResumeRaises \/ BeginEpoch \/ LoopEnds \/ TrainBatch \/ StopIteration
             \/ NoCheckpoint \/ Checkpoint \/ StepDone \/ Kill \/ UNCHANGED vars
    <3>1. UNCHANGED disk
        BY <2>4 DEF ResumeRaises, BeginEpoch, LoopEnds, TrainBatch, StopIteration,
                    NoCheckpoint, Checkpoint, StepDone, Kill, vars
    <3>2. pc \in {"closeTracker", "down", "raised"} => pc' \in {"down", "raised"} \/ pc' = pc
        BY <2>4 DEF ResumeRaises, BeginEpoch, LoopEnds, TrainBatch, StopIteration,
                    NoCheckpoint, Checkpoint, StepDone, Kill, vars
    <3> QED BY <2>3, <3>1, <3>2
  <2>5. CASE MakeRoom \/ WriteActor \/ Register \/ WriteData
    <3>1. UNCHANGED tracker /\ pc \notin {"closeTracker", "down", "raised"}
        BY <2>5 DEF MakeRoom, WriteActor, Register, WriteData
    <3> QED BY <3>1 DEF TornInv, TornIsBesideWhole
  <2> QED BY <2>1, <2>2, <2>4, <2>5 DEF Next, ProgramStep
<1>3. pc' = "raised" => tracker' = Torn
  <2>1. CASE ResumeRaises
      BY <2>1 DEF ResumeRaises, TornInv, CheckpointInv, TrackerLoads, Whole, Missing, disk
  <2>2. CASE UNCHANGED vars
      BY <2>2 DEF TornInv, vars, disk
  <2>3. CASE Next /\ ~ResumeRaises
    <3>1. pc' # "raised"
        BY <2>3 DEF Next, ProgramStep, StartFromScratch, Resume, BeginEpoch, LoopEnds,
                    TrainBatch, StopIteration, EpochEnds, RecoverExhausted, NoCheckpoint,
                    Checkpoint, MakeRoom, WriteActor, Register, WriteData, WriteTracker,
                    StepDone, Kill
    <3> QED BY <3>1
  <2> QED BY <2>1, <2>2, <2>3
<1> QED BY <1>1, <1>2, <1>3 DEF TornInv

\* _save_checkpoint and the retention of fsdp_checkpoint_manager: with two or
\* more checkpoints kept, a kill at any moment leaves the one to resume from,
\* but for a kill inside the write of the tracker, after which a restart raises
\* with a checkpoint beside the torn tracker that can be loaded.
THEOREM CheckpointSurvivesKills ==
  ASSUME MaxToKeep > 1
  PROVE  Spec => []TrackedCheckpointIsWhole
<1>1. CheckpointInv /\ [Next]_vars => CheckpointInv'
    BY StepCheckpoint
<1>2. TornInv /\ [Next]_vars => TornInv'
    BY <1>1, TornStep DEF TornInv
<1>3. TornInv => TrackedCheckpointIsWhole
    BY DEF TornInv, CheckpointInv, TrackerLoads, TornIsBesideWhole, TrackedCheckpointIsWhole
<1> QED BY InitTorn, <1>2, <1>3, PTL DEF Spec

-----------------------------------------------------------------------------
(***************************************************************************)
(* No batch is repeated or skipped.  After n steps the dataloader stands   *)
(* at a position p with n = q * EpochLength + p; at the end of an epoch    *)
(* both p = EpochLength and p = 0 are such positions, which is why the     *)
(* snapshot of an exhausted epoch can be resumed as the start of the next. *)
(***************************************************************************)
At(n, p) == p \in 0..EpochLength /\ \E q \in Nat : n = q * EpochLength + p

InOrder(w) == \A i \in 1..Len(w) : w[i] = 1 + ((i - 1) % EpochLength)

\* A batch is trained and global_steps does not count it yet.
Trained == pc \notin {"down", "raised", "epoch", "fetch", "returned"}

BatchesInv ==
  /\ CheckpointInv
  /\ InOrder(weights)
  /\ pc \in {"epoch", "fetch"} \/ Trained =>
       /\ Len(weights) = IF Trained THEN CurrentStep ELSE globalSteps
       /\ At(Len(weights), position)
  /\ \A n \in Steps : actor[n] \notin Missing => InOrder(actor[n]) /\ Len(actor[n]) = n
  /\ \A n \in Steps : data[n] \notin Missing => At(n, data[n])
  /\ pc = "down" => globalSteps = 0 /\ position = 0 /\ weights = <<>>

LEMMA EpochLengthType == EpochLength \in Nat \ {0}
BY SyncTrainingAssumption

LEMMA Remainder ==
  ASSUME NEW d \in Nat \ {0}, NEW q \in Nat, NEW p \in 0..(d - 1)
  PROVE  (q * d + p) % d = p
BY SMTT(60)

LEMMA PositionIsRemainder ==
  ASSUME NEW n \in Nat, NEW p, At(n, p), p # EpochLength
  PROVE  n % EpochLength = p /\ At(n + 1, p + 1)
<1>1. p \in 0..(EpochLength - 1)
    BY EpochLengthType DEF At
<1>2. PICK q \in Nat : n = q * EpochLength + p
    BY DEF At
<1>3. n % EpochLength = p
    BY <1>1, <1>2, EpochLengthType, Remainder
<1>4. n + 1 = q * EpochLength + (p + 1)
    BY <1>1, <1>2, EpochLengthType
<1>5. p + 1 \in 0..EpochLength
    BY <1>1, EpochLengthType
<1> QED BY <1>3, <1>4, <1>5 DEF At

LEMMA EndIsStart ==
  ASSUME NEW n \in Nat, At(n, EpochLength)
  PROVE  At(n, 0)
<1>1. PICK q \in Nat : n = q * EpochLength + EpochLength
    BY DEF At
<1>2. n = (q + 1) * EpochLength + 0 /\ q + 1 \in Nat /\ 0 \in 0..EpochLength
    BY <1>1, EpochLengthType, SMTT(60)
<1> QED BY <1>2 DEF At

LEMMA NothingIsStart == At(0, 0) /\ InOrder(<<>>)
<1>1. 0 = 0 * EpochLength + 0 /\ 0 \in 0..EpochLength
    BY EpochLengthType
<1> QED BY <1>1 DEF At, InOrder

LEMMA InitBatches == Init => BatchesInv
BY InitCheckpoint, NothingIsStart DEF Init, BatchesInv, Missing, Trained

LEMMA TrainBatchStep ==
  ASSUME BatchesInv, TrainBatch, CheckpointInv'
  PROVE  BatchesInv'
<1>1. /\ pc = "fetch" /\ pc' = "trained" /\ position < EpochLength
      /\ position' = position + 1 /\ weights' = Append(weights, position + 1)
      /\ UNCHANGED <<globalSteps, actor, data>>
    BY DEF TrainBatch, disk
<1>2. /\ weights \in Seq(Nat) /\ position \in Nat /\ globalSteps \in Nat
      /\ Len(weights) = globalSteps /\ At(globalSteps, position) /\ InOrder(weights)
    BY <1>1 DEF BatchesInv, CheckpointInv, TypeOK, Trained
<1>3. globalSteps % EpochLength = position /\ At(globalSteps + 1, position + 1)
    BY <1>1, <1>2, EpochLengthType, PositionIsRemainder
<1>4. /\ Len(weights') = globalSteps + 1 /\ weights'[globalSteps + 1] = position + 1
      /\ \A i \in 1..globalSteps : weights'[i] = weights[i]
    BY <1>1, <1>2, AppendProperties
<1>5. InOrder(weights')
  <2> SUFFICES ASSUME NEW i \in 1..Len(weights')
               PROVE  weights'[i] = 1 + ((i - 1) % EpochLength)
      BY DEF InOrder
  <2>1. CASE i = globalSteps + 1
    <3>1. i - 1 = globalSteps
        BY <1>2, <2>1
    <3>2. (i - 1) % EpochLength = position
        BY <1>3, <3>1
    <3> QED BY <1>2, <1>4, <2>1, <3>2
  <2>2. CASE i # globalSteps + 1
    <3>1. i \in 1..globalSteps
        BY <1>2, <1>4, <2>2
    <3> QED BY <1>2, <1>4, <3>1 DEF InOrder
  <2> QED BY <2>1, <2>2
<1>6. Len(weights') = CurrentStep' /\ At(Len(weights'), position')
    BY <1>1, <1>3, <1>4 DEF CurrentStep
<1> QED BY <1>1, <1>5, <1>6 DEF BatchesInv, Trained

LEMMA StopIterationStep ==
  ASSUME BatchesInv, StopIteration, CheckpointInv'
  PROVE  BatchesInv'
<1>1. /\ pc = "fetch" /\ pc' \in {"fetch", "epoch"} /\ position = EpochLength /\ position' = 0
      /\ UNCHANGED <<globalSteps, weights, actor, data>>
    BY DEF StopIteration, EpochEnds, RecoverExhausted, disk
<1>2. Len(weights) \in Nat /\ At(Len(weights), position)
    BY <1>1, LenProperties DEF BatchesInv, CheckpointInv, TypeOK
<1>3. At(Len(weights), 0)
    BY <1>1, <1>2, EndIsStart
<1> QED BY <1>1, <1>3 DEF BatchesInv, Trained

LEMMA StartBatches ==
  ASSUME BatchesInv, StartFromScratch \/ Resume, CheckpointInv'
  PROVE  BatchesInv'
<1>1. pc = "down" /\ pc' = "epoch" /\ UNCHANGED <<actor, data>>
    BY DEF StartFromScratch, Resume, disk
<1>2. CASE StartFromScratch
  <2>1. globalSteps' = 0 /\ position' = 0 /\ weights' = <<>>
      BY <1>2, <1>1 DEF StartFromScratch, BatchesInv, memory, training
  <2> QED BY <1>1, <2>1, NothingIsStart DEF BatchesInv, Trained
<1>3. CASE Resume
  <2>1. tracker \in Steps /\ actor[tracker] \notin Missing /\ data[tracker] \notin Missing
      BY <1>3 DEF Resume, BatchesInv, CheckpointInv, TrackerLoads, Whole
  <2>2. globalSteps' = tracker /\ weights' = actor[tracker] /\ position' = data[tracker]
      BY <1>3, <2>1 DEF Resume, Missing
  <2> QED BY <1>1, <2>1, <2>2 DEF BatchesInv, Trained
<1> QED BY <1>2, <1>3

\* Files are whole only with what was trained up to their step.
LEMMA WriteBatches ==
  ASSUME BatchesInv, WriteActor \/ WriteData, CheckpointInv'
  PROVE  BatchesInv'
<1>1. /\ Trained /\ Trained' /\ pc' # "down"
      /\ UNCHANGED <<globalSteps, position, weights>>
    BY DEF WriteActor, WriteData, Trained, memory, training
<1>2. /\ Len(weights) = CurrentStep /\ At(CurrentStep, position) /\ InOrder(weights)
      /\ CurrentStep' = CurrentStep
    BY <1>1 DEF BatchesInv, CurrentStep
<1>3. \A n \in Steps : actor'[n] \in {actor[n], Torn} \/ (n = CurrentStep /\ actor'[n] = weights)
    BY DEF WriteActor, WriteData, BatchesInv, CheckpointInv, TypeOK
<1>4. \A n \in Steps : data'[n] \in {data[n], Torn} \/ (n = CurrentStep /\ data'[n] = position)
    BY DEF WriteActor, WriteData, DataloaderState, BatchesInv, CheckpointInv, TypeOK
<1>5. \A n \in Steps : actor'[n] \notin Missing => InOrder(actor'[n]) /\ Len(actor'[n]) = n
    BY <1>2, <1>3 DEF BatchesInv, Missing
<1>6. \A n \in Steps : data'[n] \notin Missing => At(n, data'[n])
    BY <1>2, <1>4 DEF BatchesInv, Missing
<1> QED BY <1>1, <1>2, <1>5, <1>6 DEF BatchesInv

LEMMA RemoveBatches ==
  ASSUME BatchesInv, MakeRoom \/ Register, CheckpointInv'
  PROVE  BatchesInv'
<1>1. /\ Trained /\ Trained' /\ pc' # "down"
      /\ UNCHANGED <<globalSteps, position, weights, data>>
    BY DEF MakeRoom, Register, Trained, training
<1>2. \A n \in Steps : actor'[n] \in {actor[n], Absent}
    BY DEF MakeRoom, Register, RemoveOldest
<1>3. \A n \in Steps : actor'[n] \notin Missing => InOrder(actor'[n]) /\ Len(actor'[n]) = n
    BY <1>2 DEF BatchesInv, Missing
<1> QED BY <1>1, <1>3 DEF BatchesInv, CurrentStep

LEMMA OtherBatches ==
  ASSUME BatchesInv, CheckpointInv',
         BeginEpoch \/ LoopEnds \/ NoCheckpoint \/ Checkpoint \/ ResumeRaises
           \/ WriteTracker \/ StepDone \/ Kill \/ UNCHANGED vars
  PROVE  BatchesInv'
<1>1. UNCHANGED <<actor, data>>
    BY DEF BeginEpoch, LoopEnds, NoCheckpoint, Checkpoint, ResumeRaises, WriteTracker,
           StepDone, Kill, vars, disk
<1>2. CASE BeginEpoch \/ LoopEnds \/ NoCheckpoint \/ Checkpoint \/ ResumeRaises
             \/ WriteTracker \/ UNCHANGED vars
  <2>1. UNCHANGED <<globalSteps, position, weights>>
      BY <1>2 DEF BeginEpoch, LoopEnds, NoCheckpoint, Checkpoint, ResumeRaises, WriteTracker,
                  vars, memory, training
  <2>2. \/ Trained' /\ Trained
        \/ pc' \in {"epoch", "fetch"} /\ pc \in {"epoch", "fetch"}
        \/ pc' \in {"returned", "raised"}
        \/ pc' = "down" /\ pc = "down"
      BY <1>2 DEF BeginEpoch, LoopEnds, NoCheckpoint, Checkpoint, ResumeRaises, WriteTracker,
                  vars, Trained, BatchesInv, CheckpointInv, TypeOK
  <2> QED BY <1>1, <2>1, <2>2 DEF BatchesInv, Trained, CurrentStep
<1>3. CASE StepDone
    BY <1>1, <1>3 DEF StepDone, BatchesInv, Trained
<1>4. CASE Kill
    BY <1>1, <1>4, NothingIsStart DEF Kill, BatchesInv, Trained
<1> QED BY <1>2, <1>3, <1>4

LEMMA StepBatches ==
  ASSUME MaxToKeep > 1, BatchesInv, [Next]_vars
  PROVE  BatchesInv'
<1>1. CheckpointInv'
    BY StepCheckpoint DEF BatchesInv
<1> QED BY <1>1, TrainBatchStep, StopIterationStep, StartBatches, WriteBatches,
           RemoveBatches, OtherBatches DEF Next, ProgramStep

\* _iter_train_dataloader, its snapshot in data.pt and _load_checkpoint: across
\* kills and restarts the weights see the epochs' batches once and in order.
THEOREM EveryBatchOnce ==
  ASSUME MaxToKeep > 1
  PROVE  Spec => []EveryBatchOnceInOrder
<1>1. BatchesInv /\ [Next]_vars => BatchesInv'
    BY StepBatches
<1>2. BatchesInv => EveryBatchOnceInOrder
    BY DEF BatchesInv, InOrder, EveryBatchOnceInOrder
<1> QED BY InitBatches, <1>1, <1>2, PTL DEF Spec

-----------------------------------------------------------------------------
(***************************************************************************)
(* The job returns after its last step.  The epoch counter and the         *)
(* dataloader agree with the number of steps, except that a checkpoint of  *)
(* the end of an epoch is resumed with the epoch advanced and the          *)
(* dataloader exhausted, until the first fetch starts it over.             *)
(***************************************************************************)
Fetching == pc = "epoch" \/ (pc = "fetch" /\ ~yieldedAny)

Located(n) ==
  \/ n = epoch * EpochLength + position /\ (Fetching => position < EpochLength)
  \/ n = epoch * EpochLength /\ position = EpochLength /\ Fetching

ReturnInv ==
  /\ BatchesInv
  /\ epoch \in Nat /\ yieldedAny \in BOOLEAN
  /\ Trained => yieldedAny = TRUE /\ Located(CurrentStep)
  /\ pc \in {"epoch", "fetch"} =>
       /\ Located(globalSteps)
       /\ globalSteps >= TotalSteps => tracker = globalSteps
  /\ pc = "stepDone" /\ IsLastStep => tracker = CurrentStep
  /\ pc = "down" => epoch = 0
  /\ ReturnsAfterLastStep

LEMMA Division ==
  ASSUME NEW d \in Nat \ {0}, NEW n \in Nat
  PROVE  /\ n \div d \in Nat
         /\ n - (d - 1) <= (n \div d) * d
         /\ \A q \in Nat, p \in 0..(d - 1) : n = q * d + p => n \div d = q
<1>1. n \div d \in Nat /\ n - (d - 1) <= (n \div d) * d
    BY SMTT(60)
<1>2. ASSUME NEW q \in Nat, NEW p \in 0..(d - 1), n = q * d + p
      PROVE  n \div d = q
    BY <1>2, SMTT(60)
<1> QED BY <1>1, <1>2

LEMMA StepCounts ==
  /\ TotalSteps \in Nat /\ EffectiveEpochs \in Nat
  /\ \A e \in Nat : e >= EffectiveEpochs => e * EpochLength >= TotalSteps
<1>1. /\ EpochLength \in Nat \ {0} /\ TotalEpochs \in Nat \ {0}
      /\ PinnedSteps \in Nat
    BY SyncTrainingAssumption
<1>2. TotalSteps \in Nat
    BY <1>1, SMTT(30) DEF TotalSteps
<1>3. /\ PinnedEpochs \in Nat
      /\ TotalSteps <= PinnedEpochs * EpochLength
  <2> DEFINE n == TotalSteps + EpochLength - 1
  <2>1. n \in Nat /\ n - (EpochLength - 1) = TotalSteps
      BY <1>1, <1>2
  <2> HIDE DEF n
  <2>2. n \div EpochLength \in Nat /\ TotalSteps <= (n \div EpochLength) * EpochLength
      BY <1>1, <2>1, Division
  <2>3. PinnedEpochs = n \div EpochLength
      BY DEF PinnedEpochs, n
  <2> QED BY <2>2, <2>3
<1>4. EffectiveEpochs \in Nat /\ TotalSteps <= EffectiveEpochs * EpochLength
  <2>1. CASE PinnedSteps = 0
      BY <1>1, <2>1, SMTT(30) DEF EffectiveEpochs, TotalSteps
  <2>2. CASE PinnedSteps > 0 /\ PinnedEpochs > TotalEpochs
      BY <1>3, <2>2 DEF EffectiveEpochs
  <2>3. CASE PinnedSteps > 0 /\ ~(PinnedEpochs > TotalEpochs)
    <3>1. EffectiveEpochs = TotalEpochs /\ PinnedEpochs <= TotalEpochs
        BY <1>1, <1>3, <2>3 DEF EffectiveEpochs
    <3>2. PinnedEpochs * EpochLength <= TotalEpochs * EpochLength
        BY <1>1, <1>3, <3>1, SMTT(30)
    <3> QED BY <1>1, <1>2, <1>3, <3>1, <3>2, SMTT(30)
  <2> QED BY <1>1, <2>1, <2>2, <2>3
<1>5. ASSUME NEW e \in Nat, e >= EffectiveEpochs
      PROVE  e * EpochLength >= TotalSteps
  <2>1. e * EpochLength >= EffectiveEpochs * EpochLength
      BY <1>1, <1>4, <1>5, SMTT(30)
  <2> QED BY <1>1, <1>2, <1>4, <2>1, SMTT(30)
<1> QED BY <1>2, <1>4, <1>5

LEMMA InitReturn == Init => ReturnInv
<1> SUFFICES ASSUME Init PROVE ReturnInv
    OBVIOUS
<1>1. pc = "down" /\ epoch = 0
    BY DEF Init
<1>2. yieldedAny \in BOOLEAN
    BY Zenon DEF Init
<1> QED BY <1>1, <1>2, InitBatches DEF ReturnInv, Trained, ReturnsAfterLastStep

\* A resume finds the epoch and the position of the step it resumes from.
LEMMA StartReturn ==
  ASSUME ReturnInv, StartFromScratch \/ Resume, BatchesInv'
  PROVE  ReturnInv'
<1>1. /\ pc = "down" /\ pc' = "epoch" /\ UNCHANGED <<tracker, yieldedAny>>
      /\ epoch = 0 /\ EpochLength \in Nat \ {0}
    BY EpochLengthType
       DEF StartFromScratch, Resume, disk, memory, training, ReturnInv
<1>2. ASSUME epoch' \in Nat, Located(globalSteps)',
             globalSteps' >= TotalSteps => tracker' = globalSteps'
      PROVE  ReturnInv'
    BY <1>1, <1>2 DEF ReturnInv, Trained, ReturnsAfterLastStep
<1>3. CASE StartFromScratch
  <2>1. globalSteps' = 0 /\ position' = 0 /\ epoch' = 0
      BY <1>1, <1>3 DEF StartFromScratch, ReturnInv, BatchesInv, memory, training
  <2>2. Located(globalSteps)'
      BY <1>1, <2>1 DEF Located
  <2>3. TotalSteps # 0
      BY SyncTrainingAssumption, SMTT(30) DEF TotalSteps
  <2>4. ~(globalSteps' >= TotalSteps)
      BY <2>1, <2>3, StepCounts
  <2> QED BY <1>2, <2>1, <2>2, <2>4
<1>4. CASE Resume
  <2>1. tracker \in Steps /\ actor[tracker] \notin Missing /\ data[tracker] \notin Missing
      BY <1>4 DEF Resume, ReturnInv, BatchesInv, CheckpointInv, TrackerLoads, Whole
  <2>2. /\ globalSteps' = tracker /\ position' = data[tracker]
        /\ epoch' = tracker \div EpochLength
      BY <1>4, <2>1 DEF Resume, Missing
  <2>3. tracker \in Nat /\ At(tracker, data[tracker])
      BY <2>1, StepCounts DEF Steps, ReturnInv, BatchesInv
  <2>4. PICK q \in Nat : tracker = q * EpochLength + data[tracker]
      BY <2>3 DEF At
  <2>5. data[tracker] \in 0..EpochLength /\ epoch' \in Nat
      BY <1>1, <2>2, <2>3, Division DEF At
  <2>6. CASE data[tracker] # EpochLength
    <3>1. data[tracker] \in 0..(EpochLength - 1)
        BY <1>1, <2>5, <2>6
    <3>2. epoch' = q
        BY <1>1, <2>2, <2>3, <2>4, <3>1, Division
    <3>3. Located(globalSteps)'
        BY <1>1, <2>2, <2>4, <3>1, <3>2 DEF Located
    <3> QED BY <1>2, <1>1, <2>2, <2>5, <3>3
  <2>7. CASE data[tracker] = EpochLength
    <3>1. tracker = (q + 1) * EpochLength + 0 /\ q + 1 \in Nat
          /\ 0 \in 0..(EpochLength - 1)
        BY <1>1, <2>4, <2>7, SMTT(30)
    <3>2. epoch' = q + 1 /\ tracker = (q + 1) * EpochLength
        BY <1>1, <2>2, <2>3, <3>1, Division, SMTT(30)
    <3>3. Located(globalSteps)'
        BY <1>1, <2>2, <2>7, <3>2 DEF Located, Fetching
    <3> QED BY <1>2, <1>1, <2>2, <2>5, <3>3
  <2> QED BY <2>6, <2>7
<1> QED BY <1>3, <1>4

LEMMA TrainBatchReturn ==
  ASSUME ReturnInv, TrainBatch, BatchesInv'
  PROVE  ReturnInv'
<1>1. /\ pc = "fetch" /\ pc' = "trained" /\ position < EpochLength
      /\ position' = position + 1 /\ yieldedAny' = TRUE
      /\ UNCHANGED <<globalSteps, epoch, tracker>>
    BY DEF TrainBatch, disk
<1>2. /\ globalSteps \in Nat /\ position \in Nat /\ epoch \in Nat
      /\ EpochLength \in Nat \ {0} /\ CurrentStep' = globalSteps + 1
      /\ globalSteps = epoch * EpochLength + position
    BY <1>1, EpochLengthType
       DEF ReturnInv, BatchesInv, CheckpointInv, TypeOK, CurrentStep, Located
<1>3. globalSteps + 1 = epoch * EpochLength + (position + 1)
    BY <1>2
<1>4. Located(CurrentStep)'
    BY <1>1, <1>2, <1>3 DEF Located, Fetching
<1> QED BY <1>1, <1>2, <1>4 DEF ReturnInv, Trained, ReturnsAfterLastStep

LEMMA StopIterationReturn ==
  ASSUME ReturnInv, StopIteration, BatchesInv'
  PROVE  ReturnInv'
<1>1. /\ pc = "fetch" /\ position = EpochLength /\ position' = 0
      /\ UNCHANGED <<globalSteps, yieldedAny, tracker>>
    BY DEF StopIteration, EpochEnds, RecoverExhausted, disk
<1>2. /\ EpochLength \in Nat \ {0} /\ epoch \in Nat /\ Located(globalSteps)
      /\ yieldedAny \in BOOLEAN
    BY <1>1, EpochLengthType DEF ReturnInv
<1>3. CASE yieldedAny
  <2>1. pc' = "epoch" /\ epoch' = epoch + 1
      BY <1>3 DEF StopIteration, EpochEnds
  <2>2. globalSteps = epoch * EpochLength + EpochLength
      BY <1>1, <1>3, <1>2 DEF Located, Fetching
  <2>3. globalSteps = (epoch + 1) * EpochLength + 0
      BY <1>2, <2>2, SMTT(30)
  <2>4. Located(globalSteps)'
      BY <1>1, <1>2, <2>1, <2>3 DEF Located
  <2> QED BY <1>1, <1>2, <2>1, <2>4 DEF ReturnInv, Trained, ReturnsAfterLastStep
<1>4. CASE ~yieldedAny
  <2>1. pc' = "fetch" /\ epoch' = epoch
      BY <1>1, <1>4 DEF StopIteration, RecoverExhausted
  <2>2. globalSteps = epoch * EpochLength
      BY <1>1, <1>4, <1>2 DEF Located, Fetching
  <2>3. globalSteps = epoch * EpochLength + 0
      BY <1>2, <2>2, SMTT(30)
  <2>4. Located(globalSteps)'
      BY <1>1, <1>2, <2>1, <2>3 DEF Located
  <2> QED BY <1>1, <1>2, <2>1, <2>4 DEF ReturnInv, Trained, ReturnsAfterLastStep
<1> QED BY <1>2, <1>3, <1>4

\* The loop over the epochs ends with as many steps as the epochs have.
LEMMA LoopReturn ==
  ASSUME ReturnInv, BeginEpoch \/ LoopEnds, BatchesInv'
  PROVE  ReturnInv'
<1>1. /\ pc = "epoch"
      /\ UNCHANGED <<globalSteps, epoch, position, tracker>>
    BY DEF BeginEpoch, LoopEnds, disk, memory, training
<1>2. CASE BeginEpoch
  <2>1. pc' = "fetch" /\ yieldedAny' = FALSE
      BY <1>2 DEF BeginEpoch
  <2>2. Located(globalSteps)'
      BY <1>1, <2>1 DEF ReturnInv, Located, Fetching
  <2> QED BY <1>1, <2>1, <2>2 DEF ReturnInv, Trained, ReturnsAfterLastStep
<1>3. CASE LoopEnds
  <2>1. /\ pc' = "returned" /\ epoch >= EffectiveEpochs
        /\ yieldedAny' = yieldedAny
      BY <1>3 DEF LoopEnds, memory, training
  <2>2. /\ epoch \in Nat /\ position \in Nat /\ globalSteps \in Nat
        /\ EpochLength \in Nat /\ Located(globalSteps)
      BY <1>1, EpochLengthType DEF ReturnInv, BatchesInv, CheckpointInv, TypeOK
  <2>3. epoch * EpochLength \in Nat /\ epoch * EpochLength >= TotalSteps
      BY <2>1, <2>2, StepCounts, SMTT(30)
  <2>4. globalSteps >= epoch * EpochLength
      BY <2>2, <2>3 DEF Located
  <2>5. globalSteps >= TotalSteps
      BY <2>2, <2>3, <2>4, StepCounts
  <2>6. ReturnsAfterLastStep'
      BY <1>1, <2>1, <2>5 DEF ReturnInv, ReturnsAfterLastStep
  <2> QED BY <1>1, <2>1, <2>6 DEF ReturnInv, Trained
<1> QED BY <1>2, <1>3

\* A step that is not saved is not the last.
LEMMA SavingReturn ==
  ASSUME ReturnInv, BatchesInv',
         NoCheckpoint \/ Checkpoint \/ MakeRoom \/ WriteActor \/ Register
           \/ WriteData \/ WriteTracker
  PROVE  ReturnInv'
<1>1. /\ Trained /\ Trained'
      /\ UNCHANGED <<globalSteps, epoch, position, yieldedAny>>
    BY DEF NoCheckpoint, Checkpoint, MakeRoom, WriteActor, Register, WriteData,
           WriteTracker, Trained, memory, training
<1>2. CurrentStep' = CurrentStep /\ (IsLastStep' <=> IsLastStep)
    BY <1>1 DEF CurrentStep, IsLastStep
<1>3. pc' = "stepDone" => ~IsLastStep \/ tracker' = CurrentStep
    BY DEF NoCheckpoint, Checkpoint, MakeRoom, WriteActor, Register, WriteData,
           WriteTracker
<1>4. Located(CurrentStep)'
    BY <1>1, <1>2 DEF ReturnInv, Located, Fetching, Trained
<1> QED BY <1>1, <1>2, <1>3, <1>4 DEF ReturnInv, Trained, ReturnsAfterLastStep

LEMMA StepDoneReturn ==
  ASSUME ReturnInv, StepDone, BatchesInv'
  PROVE  ReturnInv'
<1>1. /\ pc = "stepDone" /\ globalSteps' = CurrentStep
      /\ pc' = IF IsLastStep THEN "returned" ELSE "fetch"
      /\ UNCHANGED <<epoch, position, yieldedAny, tracker>>
    BY DEF StepDone, disk
<1>2. yieldedAny = TRUE /\ Located(CurrentStep)
    BY <1>1 DEF ReturnInv, Trained
<1>3. CASE IsLastStep
  <2>1. pc' = "returned" /\ tracker = CurrentStep
      BY <1>1, <1>3 DEF ReturnInv
  <2>2. ReturnsAfterLastStep'
      BY <1>1, <1>3, <2>1 DEF ReturnsAfterLastStep, IsLastStep
  <2> QED BY <1>1, <2>1, <2>2 DEF ReturnInv, Trained
<1>4. CASE ~IsLastStep
  <2>1. pc' = "fetch" /\ ~(globalSteps' >= TotalSteps)
      BY <1>1, <1>4 DEF IsLastStep
  <2>2. Located(globalSteps)'
      BY <1>1, <1>2, <2>1 DEF Located, Fetching
  <2> QED BY <1>1, <1>2, <2>1, <2>2 DEF ReturnInv, Trained, ReturnsAfterLastStep
<1> QED BY <1>3, <1>4

LEMMA OtherReturn ==
  ASSUME ReturnInv, Kill \/ ResumeRaises \/ UNCHANGED vars, BatchesInv'
  PROVE  ReturnInv'
<1>1. CASE Kill
  <2>1. pc' = "down" /\ epoch' = 0
      BY <1>1 DEF Kill
  <2>2. yieldedAny' \in BOOLEAN
      BY <1>1, Zenon DEF Kill
  <2> QED BY <2>1, <2>2 DEF ReturnInv, Trained, ReturnsAfterLastStep
<1>3. CASE ResumeRaises
    BY <1>3 DEF ResumeRaises, ReturnInv, Trained, ReturnsAfterLastStep, memory, training
<1>2. CASE UNCHANGED vars
    BY <1>2 DEF vars, memory, training, disk, ReturnInv, Trained, ReturnsAfterLastStep,
                Located, Fetching, CurrentStep, IsLastStep
<1> QED BY <1>1, <1>2, <1>3

\* fit returns only when every step is trained and the last one is the one to
\* resume from, whatever was pinned, however often it was killed.
THEOREM ReturnsWhenDone ==
  ASSUME MaxToKeep > 1
  PROVE  Spec => []ReturnsAfterLastStep
<1>1. ReturnInv /\ [Next]_vars => ReturnInv'
  <2> SUFFICES ASSUME ReturnInv, [Next]_vars PROVE ReturnInv'
      OBVIOUS
  <2>1. BatchesInv'
      BY StepBatches DEF ReturnInv
  <2> QED BY <2>1, StartReturn, TrainBatchReturn, StopIterationReturn, LoopReturn,
             SavingReturn, StepDoneReturn, OtherReturn DEF Next, ProgramStep
<1>2. ReturnInv => ReturnsAfterLastStep
    BY DEF ReturnInv
<1> QED BY InitReturn, <1>1, <1>2, PTL DEF Spec
=============================================================================
