-------------------------- MODULE StrictAsync_proofs --------------------------
(***************************************************************************)
(* Strict-async training is safe for every number of samples, judges and   *)
(* versions and every size of window, queue and batch: what is proved of   *)
(* the whole job of StrictAsync, from the types up to the refinement of    *)
(* OnPolicyWindows.                                                        *)
(*                                                                         *)
(* The invariants come in layers, each inductive given the ones before it. *)
(***************************************************************************)
EXTENDS StrictAsync, WindowCoordinator_proofs, FiniteSetTheorems,
        FunctionTheorems, SequenceTheorems, TLAPS

-----------------------------------------------------------------------------
(* Sequences without repetition; the end marker may repeat. *)

InSeq(q, x) == \E i \in DOMAIN q : q[i] = x

Distinct(q) ==
  \A i, j \in DOMAIN q : q[i] = q[j] /\ q[i] # EndMarker => i = j

LEMMA InAppend ==
  ASSUME NEW S, NEW q \in Seq(S), NEW x \in S, NEW y
  PROVE  InSeq(Append(q, x), y) <=> InSeq(q, y) \/ x = y
<1> DEFINE r == Append(q, x)
<1>1. /\ r \in Seq(S) /\ Len(r) = Len(q) + 1 /\ r[Len(q) + 1] = x
      /\ \A i \in 1 .. Len(q) : r[i] = q[i]
  BY AppendProperties
<1>2. DOMAIN q = 1 .. Len(q) /\ DOMAIN r = 1 .. Len(q) + 1 /\ Len(q) \in Nat
  BY <1>1, LenProperties
<1>3. DOMAIN r = DOMAIN q \union {Len(q) + 1}
  BY <1>2
<1> QED
  BY <1>1, <1>2, <1>3 DEF InSeq

LEMMA DistinctAppend ==
  ASSUME NEW S, NEW q \in Seq(S), NEW x \in S,
         Distinct(q), x = EndMarker \/ ~InSeq(q, x)
  PROVE  Distinct(Append(q, x))
<1> DEFINE r == Append(q, x)
<1>1. /\ r \in Seq(S) /\ Len(r) = Len(q) + 1 /\ r[Len(q) + 1] = x
      /\ \A i \in 1 .. Len(q) : r[i] = q[i]
  BY AppendProperties
<1>2. DOMAIN q = 1 .. Len(q) /\ DOMAIN r = 1 .. Len(q) + 1 /\ Len(q) \in Nat
  BY <1>1, LenProperties
<1>3. SUFFICES ASSUME NEW i \in DOMAIN r, NEW j \in DOMAIN r,
                      r[i] = r[j], r[i] # EndMarker, i # j
               PROVE  FALSE
  BY DEF Distinct
<1>4. CASE i \in DOMAIN q /\ j \in DOMAIN q
  BY <1>1, <1>2, <1>3, <1>4 DEF Distinct
<1>5. CASE i = Len(q) + 1 \/ j = Len(q) + 1
  BY <1>1, <1>2, <1>3, <1>5 DEF InSeq
<1> QED
  BY <1>2, <1>4, <1>5

LEMMA InTail ==
  ASSUME NEW S, NEW q \in Seq(S), q # <<>>, Distinct(q)
  PROVE  /\ \A y : y # EndMarker =>
              (InSeq(Tail(q), y) <=> InSeq(q, y) /\ y # Head(q))
         /\ \A y : InSeq(Tail(q), y) => InSeq(q, y)
         /\ InSeq(q, Head(q))
         /\ Distinct(Tail(q))
<1> DEFINE r == Tail(q)
<1>1. /\ r \in Seq(S) /\ Len(r) = Len(q) - 1
      /\ \A i \in 1 .. Len(r) : r[i] = q[i + 1]
  BY HeadTailProperties
<1>2. /\ DOMAIN q = 1 .. Len(q) /\ DOMAIN r = 1 .. Len(r)
      /\ Len(q) \in Nat /\ Len(q) # 0
  BY <1>1, LenProperties, EmptySeq
<1>3. Head(q) = q[1] /\ 1 \in DOMAIN q
  BY <1>2
<1>4. \A y : InSeq(r, y) => InSeq(q, y)
  BY <1>1, <1>2 DEF InSeq
<1>5. ASSUME NEW y, y # EndMarker, InSeq(r, y)  PROVE y # Head(q)
  <2>1. PICK i \in DOMAIN r : r[i] = y
    BY <1>5 DEF InSeq
  <2>2. q[i + 1] = y /\ i + 1 \in DOMAIN q /\ i + 1 # 1
    BY <1>1, <1>2, <2>1
  <2> QED
    BY <1>3, <1>5, <2>2 DEF Distinct
<1>6. ASSUME NEW y, InSeq(q, y), y # Head(q)  PROVE InSeq(r, y)
  <2>1. PICK i \in DOMAIN q : q[i] = y
    BY <1>6 DEF InSeq
  <2>2. i # 1
    BY <1>3, <1>6, <2>1
  <2>3. i - 1 \in DOMAIN r /\ r[i - 1] = y
    BY <1>1, <1>2, <2>1, <2>2
  <2> QED
    BY <2>3 DEF InSeq
<1>7. Distinct(r)
  <2>1. SUFFICES ASSUME NEW i \in DOMAIN r, NEW j \in DOMAIN r,
                        r[i] = r[j], r[i] # EndMarker
                 PROVE  i = j
    BY DEF Distinct
  <2>2. /\ r[i] = q[i + 1] /\ r[j] = q[j + 1]
        /\ i + 1 \in DOMAIN q /\ j + 1 \in DOMAIN q
    BY <1>1, <1>2
  <2>3. i + 1 = j + 1
    BY <2>1, <2>2 DEF Distinct
  <2> QED
    BY <1>2, <2>3
<1> QED
  BY <1>3, <1>4, <1>5, <1>6, <1>7 DEF InSeq

-----------------------------------------------------------------------------
(* The rollouter's data.  TypeOK says more of some variables: it follows   *)
(* further down, where what bounds them is known.                          *)

Coroutines == {"processor", "monitor", "remote", "main"}

RollouterData ==
  /\ fed \in 0 .. SampleCount + 1
  /\ taken \in 0 .. SampleCount
  /\ hand \in Samples \union {NoSample}
  /\ processor \in ProcessorState
  /\ doneTasksBound \in BOOLEAN
  /\ task \in [Samples -> TaskState]
  /\ active \subseteq Samples
  /\ staleness \in Nat
  /\ paused \in BOOLEAN
  /\ running \in BOOLEAN
  /\ monitorTrigger \in BOOLEAN
  /\ monitor \in {"top", "asleep", "resuming", "exited"}
  /\ onLoop \in {"none", "processor"}
  /\ lock \in {"free", "processor", "remote"}
  /\ lockQueue \in Seq(Coroutines)
  /\ remote \in {"none", "pause", "pausing", "cleared", "paused",
                 "update", "updating", "validating", "resume"}
  /\ resetTo \in Nat

(* The processor has a sample in hand from taking it to submitting it, and *)
(* dies with it where awaiting an older task raises.                       *)
HoldsHand == {"limit", "submit", "submitAsleep"}

HandHeld ==
  /\ processor \in HoldsHand => hand # NoSample
  /\ processor \notin HoldsHand \union {"crashed", "ended"} => hand = NoSample

TaskMoves(s) ==
  \/ TaskAdmitted(s) \/ TaskAdmissionTimesOut(s) \/ TaskGenerated(s)
  \/ TaskGenerationFails(s) \/ TaskEnqueued(s) \/ TaskStoppedEnqueuing(s)

(* What the rollouter does in a step of the job. *)
RollouterNext ==
  \/ Feed \/ LockStep \/ ProcessorStep \/ MonitorStep \/ RemoteStep
  \/ \E s \in Samples : TaskMoves(s)
  \/ ProcessorEnds \/ StopRunning
  \/ \E call \in {"pause", "update"} : CallRemote(call)

LEMMA RollouterSteps == [Next]_vars => RollouterNext \/ UNCHANGED rollouterVars
<1> SUFFICES ASSUME [Next]_vars
             PROVE  RollouterNext \/ UNCHANGED rollouterVars
  OBVIOUS
<1>1. CASE InitialSynchronisation
  BY <1>1 DEF InitialSynchronisation, OutsideMain
<1>2. CASE RollouterAlone
  BY <1>2 DEF RollouterAlone, RollouterNext
<1>3. CASE EndGeneration \/ RollouterStops
  BY <1>3 DEF EndGeneration, RollouterStops, RollouterNext
<1>4. ASSUME NEW s \in Samples, TaskProgress(s) \/ GenerationFails(s)
      PROVE  RollouterNext
  BY <1>4 DEF TaskProgress, GenerationFails, Admit, AdmissionTimesOut,
              Generated, EnqueueRaw, TaskMoves, RollouterNext
<1>5. CASE (\E w \in Workers : Judge(w)) \/ DispatcherStep
  BY <1>5 DEF Judge, DispatcherStep, DispatcherAlone, DispatcherMarks,
              OutsideJudging
<1>6. CASE TrainerStep
  BY <1>6 DEF TrainerStep, Collect, TrainerConsumes, TrainerAlone, StartSync,
              SyncVersion, TransferWeights, RollouterNext
<1>7. CASE MainStep
  BY <1>7 DEF MainStep, OutsideMain
<1>8. CASE UNCHANGED vars
  BY <1>8 DEF vars
<1> QED
  BY <1>1, <1>2, <1>3, <1>4, <1>5, <1>6, <1>7, <1>8 DEF Next

LEMMA ActiveIsFinite ==
  ASSUME NEW T, T \subseteq Samples
  PROVE  /\ IsFiniteSet(T) /\ Cardinality(T) \in Nat
         /\ Cardinality(T) <= SampleCount
<1>1. IsFiniteSet(Samples) /\ Cardinality(Samples) = SampleCount
  BY RollouterAssumption, FS_Interval DEF Samples
<1> QED
  BY <1>1, FS_Subset, FS_CardinalityType, RollouterAssumption

LEMMA ReapTypes ==
  ASSUME NEW l \in ReapLoop, NEW T
  PROVE  ReapOrGoOn(l, T) \in {l, AfterReap[l]}
         /\ AfterReap[l] \in {"sleep", "submit", "exited"}
BY DEF ReapOrGoOn, AfterReap, ReapLoop

LEMMA QueueTypes ==
  ASSUME lockQueue \in Seq(Coroutines)
  PROVE  /\ Served => lockQueue' \in Seq(Coroutines)
         /\ \A c \in Coroutines : Append(lockQueue, c) \in Seq(Coroutines)
BY HeadTailProperties, AppendProperties DEF Served

LEMMA CountsAreNaturals ==
  ASSUME RollouterData
  PROVE  /\ SampleCount \in Nat /\ SampleCount # 0
         /\ taken \in Nat /\ fed \in Nat /\ staleness + 1 \in Nat
         /\ taken < SampleCount => taken + 1 \in Samples
         /\ \A s \in Samples : s \in Nat /\ s # NoSample
BY RollouterAssumption DEF RollouterData, Samples, NoSample

LEMMA FeedKeepsData == RollouterData /\ Feed => RollouterData'
BY RollouterAssumption
   DEF RollouterData, Feed, processorVars, sampleTasks, lockVars, otherVars

LEMMA LockStepKeepsData == RollouterData /\ LockStep => RollouterData'
<1> SUFFICES ASSUME RollouterData, NEW c \in Coroutines, WaitForLock(c)
             PROVE  RollouterData'
  BY DEF LockStep, Coroutines
<1>1. lockQueue' \in Seq(Coroutines) /\ onLoop' = "none"
  BY QueueTypes DEF WaitForLock, RollouterData
<1> QED
  BY <1>1 DEF RollouterData, WaitForLock, processorVars, sampleTasks, otherVars

LEMMA ProcessorKeepsData ==
  RollouterData /\ HandHeld /\ ProcessorStep => RollouterData'
<1> SUFFICES ASSUME RollouterData, HandHeld, ProcessorStep PROVE RollouterData'
  OBVIOUS
<1> USE DEF WaitsNow, GoesOn, PassLock, KeepLock, Release, sampleTasks,
            processorVars, lockVars, otherVars
<1>0. Served => lockQueue' \in Seq(Coroutines)
  BY QueueTypes DEF RollouterData
<1>1. CASE CheckPause
  BY <1>1 DEF RollouterData, CheckPause, ProcessorState
<1>2. CASE SetPaused
  BY <1>0, <1>2, ReapTypes
     DEF RollouterData, SetPaused, ProcessorState, ReapLoop
<1>3. CASE Sleep
  BY <1>0, <1>3 DEF RollouterData, Sleep, ProcessorState
<1>4. CASE Take
  <2>1. staleness' \in Nat /\ taken' \in 0 .. SampleCount
        /\ hand' \in Samples \union {NoSample}
    BY <1>4, CountsAreNaturals DEF RollouterData, Take
  <2>2. processor' \in ProcessorState
    BY <1>4, ReapTypes DEF Take, ProcessorState, ReapLoop
  <2> QED
    BY <1>4, <2>1, <2>2 DEF RollouterData, Take
<1>5. CASE WaitForSample
  BY <1>5 DEF RollouterData, WaitForSample
<1>6. CASE Submit
  <2>1. hand \in Samples
    BY <1>6 DEF RollouterData, HandHeld, HoldsHand, Submit
  <2>2. task' \in [Samples -> TaskState] /\ active' \subseteq Samples
    BY <1>6, <2>1 DEF RollouterData, Submit, TaskState
  <2> QED
    BY <1>0, <1>6, <2>2 DEF RollouterData, Submit, ProcessorState
<1>7. ASSUME NEW l \in ReapLoop, ReapWait(l) \/ ReapNoTasks(l) \/ Reap(l)
      PROVE  RollouterData'
  <2>1. processor' \in ProcessorState
    BY <1>7, ReapTypes DEF ReapWait, ReapNoTasks, Reap, ProcessorState,
                           ReapLoop, RollouterData
  <2>2. active' \subseteq active /\ doneTasksBound' \in BOOLEAN
    BY <1>7 DEF ReapWait, ReapNoTasks, Reap, RollouterData
  <2>3. lockQueue' \in Seq(Coroutines)
        /\ lock' \in {"free", "processor", "remote"}
        /\ onLoop' \in {"none", "processor"}
    BY <1>0, <1>7 DEF ReapWait, ReapNoTasks, Reap, RollouterData
  <2> QED
    BY <1>7, <2>1, <2>2, <2>3
       DEF ReapWait, ReapNoTasks, Reap, RollouterData
<1> QED
  BY <1>1, <1>2, <1>3, <1>4, <1>5, <1>6, <1>7 DEF ProcessorStep

LEMMA NotifyTypes ==
  ASSUME processor \in ProcessorState, NotifyAll \/ NotifyNobody
  PROVE  processor' \in ProcessorState
BY DEF NotifyAll, NotifyNobody, WokenAs, ProcessorState

LEMMA MonitorKeepsData == RollouterData /\ MonitorStep => RollouterData'
<1> SUFFICES ASSUME RollouterData, MonitorStep PROVE RollouterData'
  OBVIOUS
<1>0. Served => lockQueue' \in Seq(Coroutines)
  BY QueueTypes DEF RollouterData
<1>1. Append(lockQueue, "monitor") \in Seq(Coroutines)
  BY QueueTypes DEF RollouterData, Coroutines
<1>2. /\ LiftPause => processor' \in ProcessorState /\ paused' \in BOOLEAN
      /\ LeavePause => processor' \in ProcessorState /\ paused' \in BOOLEAN
  BY NotifyTypes DEF RollouterData, LiftPause, LeavePause
<1>3. /\ processor' \in ProcessorState /\ paused' \in BOOLEAN
      /\ monitor' \in {"top", "asleep", "resuming", "exited"}
  BY <1>2 DEF MonitorStep, MonitorTurn, MonitorCheck, MonitorResume,
              LeavePause, RollouterData
<1>4. lockQueue' \in Seq(Coroutines) /\ lock' = lock
  BY <1>0, <1>1 DEF MonitorStep, MonitorTurn, MonitorCheck, MonitorResume,
                    PassLock, lockVars, RollouterData
<1>5. MonitorOnly
  BY DEF MonitorStep, MonitorTurn, MonitorCheck, MonitorResume
<1> QED
  BY <1>3, <1>4, <1>5 DEF MonitorOnly, RollouterData, sampleTasks

LEMMA RemoteKeepsData == RollouterData /\ RemoteStep => RollouterData'
<1> SUFFICES ASSUME RollouterData, RemoteStep PROVE RollouterData'
  OBVIOUS
<1>0. Served => lockQueue' \in Seq(Coroutines)
  BY QueueTypes DEF RollouterData
<1>1. Cardinality(active) \in Nat
  BY ActiveIsFinite DEF RollouterData
<1>2. NotifyAll => processor' \in ProcessorState
  BY NotifyTypes DEF RollouterData
<1>3. /\ lockQueue' \in Seq(Coroutines)
      /\ lock' \in {"free", "processor", "remote"}
  BY <1>0 DEF RemoteStep, PauseStarts, PauseClears, PauseReturns,
              UpdateStarts, UpdateResetsStaleness, UpdateReturns, Resume,
              KeepLock, PassLock, Release, lockVars, RollouterData
<1>4. /\ processor' \in ProcessorState
      /\ paused' \in BOOLEAN /\ monitorTrigger' \in BOOLEAN
  BY <1>2 DEF RemoteStep, PauseStarts, PauseClears, PauseReturns,
              UpdateStarts, UpdateResetsStaleness, UpdateReturns, Resume,
              RollouterData
<1>5. active' \subseteq Samples /\ staleness' \in Nat /\ resetTo' \in Nat
  BY <1>1 DEF RemoteStep, PauseStarts, PauseClears, PauseReturns,
              UpdateStarts, UpdateResetsStaleness, UpdateReturns, Resume,
              RollouterData
<1>6. remote' \in {"none", "pause", "pausing", "cleared", "paused",
                   "update", "updating", "validating", "resume"}
  BY DEF RemoteStep, PauseStarts, PauseClears, PauseReturns, UpdateStarts,
         UpdateResetsStaleness, UpdateReturns, Resume
<1>7. RemoteOnly
  BY DEF RemoteStep, PauseStarts, PauseClears, PauseReturns, UpdateStarts,
         UpdateResetsStaleness, UpdateReturns, Resume
<1> QED
  BY <1>3, <1>4, <1>5, <1>6, <1>7 DEF RemoteOnly, RollouterData

LEMMA TasksKeepData ==
  ASSUME RollouterData, NEW s \in Samples, TaskMoves(s)
  PROVE  RollouterData'
BY DEF TaskMoves, TaskAdmitted, TaskAdmissionTimesOut, TaskGenerated,
       TaskGenerationFails, TaskEnqueued, TaskStoppedEnqueuing, TaskStep,
       TaskState, RollouterData, processorVars, lockVars, otherVars

(* The rollouter keeps its data in shape. *)
LEMMA RollouterKeepsData ==
  RollouterData /\ HandHeld /\ (RollouterNext \/ UNCHANGED rollouterVars)
    => RollouterData'
<1> SUFFICES ASSUME RollouterData, HandHeld,
                    RollouterNext \/ UNCHANGED rollouterVars
             PROVE  RollouterData'
  OBVIOUS
<1>0. CASE ProcessorEnds
  BY <1>0 DEF ProcessorEnds, ProcessorState, RollouterData, sampleTasks,
              lockVars, otherVars
<1>1. CASE StopRunning
  <2>1. Served => lockQueue' \in Seq(Coroutines)
    BY QueueTypes DEF RollouterData
  <2>2. UNCHANGED <<processorVars, sampleTasks>>
    BY <1>1 DEF StopRunning
  <2>3. lockQueue' \in Seq(Coroutines) /\ running' \in BOOLEAN
    BY <1>1, <2>1 DEF StopRunning, PassLock, RollouterData
  <2>4. (lock' = lock \/ lock' \in {"free", "processor", "remote"})
        /\ (onLoop' = onLoop \/ onLoop' \in {"none", "processor"})
    BY <1>1 DEF StopRunning, PassLock
  <2> QED
    BY <1>1, <2>2, <2>3, <2>4
       DEF StopRunning, RollouterData, processorVars, sampleTasks
<1>2. ASSUME NEW call \in {"pause", "update"}, CallRemote(call)
      PROVE  RollouterData'
  BY <1>2 DEF CallRemote, RollouterData, processorVars, sampleTasks, lockVars
<1>3. CASE UNCHANGED rollouterVars
  BY <1>3 DEF RollouterData, rollouterVars, processorVars, sampleTasks,
              lockVars, otherVars
<1> QED
  BY <1>0, <1>1, <1>2, <1>3, FeedKeepsData, LockStepKeepsData,
     ProcessorKeepsData, MonitorKeepsData, RemoteKeepsData, TasksKeepData
     DEF RollouterNext

LEMMA ProcessorKeepsHand ==
  ASSUME RollouterData, HandHeld, ProcessorStep
  PROVE  HandHeld'
<1> USE DEF HandHeld, HoldsHand
<1>1. CASE CheckPause
  BY <1>1 DEF CheckPause
<1>2. CASE SetPaused
  BY <1>2, ReapTypes DEF SetPaused, ReapOrGoOn, AfterReap, ReapLoop
<1>3. CASE Sleep
  BY <1>3 DEF Sleep
<1>4. CASE Take
  <2>1. taken + 1 # NoSample
    BY CountsAreNaturals DEF NoSample
  <2> QED
    BY <1>4, <2>1 DEF Take, ReapOrGoOn, AfterReap
<1>5. CASE WaitForSample \/ Submit
  BY <1>5 DEF WaitForSample, Submit, processorVars
<1>6. ASSUME NEW l \in ReapLoop, ReapWait(l) \/ ReapNoTasks(l) \/ Reap(l)
      PROVE  HandHeld'
  BY <1>6 DEF ReapWait, ReapNoTasks, Reap, ReapOrGoOn, AfterReap, ReapLoop,
              processorVars
<1> QED
  BY <1>1, <1>2, <1>3, <1>4, <1>5, <1>6 DEF ProcessorStep

LEMMA NotifyKeepsHand ==
  ASSUME HandHeld, processor \in ProcessorState, hand' = hand,
         NotifyAll \/ NotifyNobody
  PROVE  HandHeld'
BY DEF HandHeld, HoldsHand, NotifyAll, NotifyNobody, WokenAs, ProcessorState

LEMMA RollouterKeepsHand ==
  RollouterData /\ HandHeld /\ (RollouterNext \/ UNCHANGED rollouterVars)
    => HandHeld'
<1> SUFFICES ASSUME RollouterData, HandHeld,
                    RollouterNext \/ UNCHANGED rollouterVars
             PROVE  HandHeld'
  OBVIOUS
<1>1. CASE Feed \/ LockStep \/ StopRunning \/ UNCHANGED rollouterVars
  BY <1>1 DEF Feed, LockStep, WaitForLock, StopRunning, rollouterVars,
              processorVars, HandHeld
<1>2. CASE MonitorStep \/ RemoteStep
  <2>1. hand' = hand /\ (NotifyAll \/ NotifyNobody)
    BY <1>2 DEF MonitorStep, MonitorTurn, MonitorCheck, MonitorResume,
       MonitorOnly, LiftPause, LeavePause, NotifyNobody, RemoteStep, RemoteOnly,
       PauseStarts, PauseClears, PauseReturns, UpdateStarts,
       UpdateResetsStaleness, UpdateReturns, Resume
  <2> QED
    BY <2>1, NotifyKeepsHand DEF RollouterData
<1>3. ASSUME NEW s \in Samples, TaskMoves(s)  PROVE HandHeld'
  BY <1>3 DEF TaskMoves, TaskAdmitted, TaskAdmissionTimesOut, TaskGenerated,
       TaskGenerationFails, TaskEnqueued, TaskStoppedEnqueuing, TaskStep,
       processorVars, HandHeld
<1>4. CASE ProcessorEnds
  BY <1>4 DEF ProcessorEnds, HandHeld, HoldsHand
<1>5. ASSUME NEW call \in {"pause", "update"}, CallRemote(call)
      PROVE  HandHeld'
  BY <1>5 DEF CallRemote, processorVars, HandHeld
<1> QED
  BY <1>1, <1>2, <1>3, <1>4, <1>5, ProcessorKeepsHand DEF RollouterNext

-----------------------------------------------------------------------------
(* Samples are taken in order; the one in hand is the last and has no task *)
(* yet.  staleness_samples counts at most what was taken, and the end      *)
(* marker, and so does the number update_param_version resets it to.       *)
PastEnd == {"final", "exited", "crashed", "ended"}

TakenInOrder ==
  /\ hand # NoSample => hand = taken
  /\ \A s \in Samples : task[s] # "none" => s <= taken /\ s # hand
  /\ \A s \in active : task[s] # "none"
  /\ staleness <= taken + (IF processor \in PastEnd THEN 1 ELSE 0)
  /\ resetTo <= taken

(* No coroutine waits for the lock twice. *)
WaitsOnce ==
  /\ \A i, j \in DOMAIN lockQueue : lockQueue[i] = lockQueue[j] => i = j
  /\ InSeq(lockQueue, "monitor") => monitor # "asleep"

RollouterInv == RollouterData /\ HandHeld /\ TakenInOrder /\ WaitsOnce

LEMMA ActiveWithinTaken ==
  ASSUME RollouterData, TakenInOrder
  PROVE  Cardinality(active) \in Nat /\ Cardinality(active) <= taken
<1>1. active \subseteq 1 .. taken
  BY DEF RollouterData, TakenInOrder, Samples
<1>0. taken \in Nat
  BY CountsAreNaturals
<1>2. IsFiniteSet(1 .. taken) /\ Cardinality(1 .. taken) = taken
  BY ONLY <1>0, FS_Interval
<1> QED
  BY ONLY <1>0, <1>1, <1>2, FS_Subset, FS_CardinalityType

LEMMA ProcessorKeepsOrder ==
  ASSUME RollouterData, HandHeld, TakenInOrder, ProcessorStep
  PROVE  TakenInOrder'
<1> USE DEF TakenInOrder, GoesOn, WaitsNow, processorVars, sampleTasks,
            otherVars
<1>1. CASE CheckPause
  BY <1>1 DEF CheckPause, PastEnd
<1>2. CASE SetPaused
  BY <1>2, ReapTypes DEF SetPaused, PastEnd, ReapLoop, ReapOrGoOn, AfterReap
<1>3. CASE Sleep
  BY <1>3 DEF Sleep, PastEnd
<1>4. CASE Take
  <2>1. hand = NoSample
    BY <1>4 DEF Take, HandHeld, HoldsHand
  <2>2. /\ taken \in Nat /\ staleness \in Nat /\ NoSample = 0
        /\ resetTo \in Nat /\ staleness <= taken
        /\ \A s \in Samples : s \in Nat /\ s # NoSample
    BY <1>4, CountsAreNaturals
       DEF Take, PastEnd, NoSample, Samples, RollouterData
  <2>3. CASE taken < SampleCount
    <3>1. taken' = taken + 1 /\ hand' = taken + 1
      BY <1>4, <2>3 DEF Take, RollouterData
    <3> QED
      BY <1>4, <2>1, <2>2, <3>1 DEF Take, RollouterData
  <2>4. CASE taken = SampleCount
    <3>1. processor' \in PastEnd
      BY <1>4, <2>2, <2>4 DEF Take, ReapOrGoOn, AfterReap, PastEnd
    <3> QED
      BY <1>4, <2>2, <2>4, <3>1 DEF Take
  <2> QED
    BY <1>4, <2>3, <2>4 DEF Take
<1>5. CASE WaitForSample
  BY <1>5 DEF WaitForSample
<1>6. CASE Submit
  <2>1. hand \in Samples
    BY <1>6 DEF RollouterData, HandHeld, HoldsHand, Submit
  <2>2. /\ taken \in Nat /\ NoSample = 0
        /\ \A s \in Samples : s \in Nat /\ s # NoSample
    BY CountsAreNaturals DEF NoSample
  <2> QED
    BY <1>6, <2>1, <2>2 DEF Submit, RollouterData, PastEnd
<1>7. ASSUME NEW l \in ReapLoop, ReapWait(l) \/ ReapNoTasks(l) \/ Reap(l)
      PROVE  TakenInOrder'
  <2>1. /\ active' \subseteq active
        /\ UNCHANGED <<taken, hand, task, staleness, resetTo>>
        /\ processor \in PastEnd => processor' \in PastEnd
    BY <1>7 DEF ReapWait, ReapNoTasks, Reap, ReapOrGoOn, AfterReap, ReapLoop,
                PastEnd
  <2>2. taken \in Nat
    BY CountsAreNaturals
  <2> QED
    BY <2>1, <2>2 DEF RollouterData
<1> QED
  BY <1>1, <1>2, <1>3, <1>4, <1>5, <1>6, <1>7 DEF ProcessorStep

LEMMA RollouterKeepsOrder ==
  ASSUME RollouterData, HandHeld, TakenInOrder,
         RollouterNext \/ UNCHANGED rollouterVars
  PROVE  TakenInOrder'
<1> USE DEF TakenInOrder
<1>1. CASE Feed \/ LockStep \/ StopRunning \/ UNCHANGED rollouterVars
  BY <1>1 DEF Feed, LockStep, WaitForLock, StopRunning, rollouterVars,
              processorVars, sampleTasks, otherVars
<1>2. NotifyAll \/ NotifyNobody =>
        (processor \in PastEnd <=> processor' \in PastEnd)
  BY DEF NotifyAll, NotifyNobody, WokenAs, PastEnd
<1>3. CASE MonitorStep
  <2>1. NotifyAll \/ NotifyNobody
    BY <1>3 DEF MonitorStep, MonitorTurn, MonitorCheck, MonitorResume,
                LiftPause, LeavePause, NotifyNobody
  <2>2. UNCHANGED <<taken, hand, sampleTasks, resetTo>>
    BY <1>3 DEF MonitorStep, MonitorTurn, MonitorCheck, MonitorResume,
                MonitorOnly
  <2> QED
    BY <1>2, <2>1, <2>2 DEF sampleTasks
<1>4. CASE RemoteStep
  <2>1. NotifyAll \/ NotifyNobody
    BY <1>4 DEF RemoteStep, PauseStarts, PauseClears, PauseReturns,
       UpdateStarts, UpdateResetsStaleness, UpdateReturns, Resume, NotifyNobody
  <2>2. UNCHANGED <<taken, hand, task>> /\ active' \subseteq active
    BY <1>4 DEF RemoteStep, PauseStarts, PauseClears, PauseReturns,
       UpdateStarts, UpdateResetsStaleness, UpdateReturns, Resume, RemoteOnly
  <2>3. \/ UNCHANGED <<staleness, resetTo>>
        \/ staleness' = staleness /\ resetTo' = Cardinality(active)
        \/ staleness' = resetTo /\ resetTo' = 0
    BY <1>4 DEF RemoteStep, PauseStarts, PauseClears, PauseReturns,
       UpdateStarts, UpdateResetsStaleness, UpdateReturns, Resume
  <2>4. /\ taken \in Nat /\ resetTo \in Nat
        /\ Cardinality(active) \in Nat /\ Cardinality(active) <= taken
    BY ActiveWithinTaken, CountsAreNaturals DEF RollouterData
  <2>5. (staleness <= taken + (IF processor \in PastEnd THEN 1 ELSE 0))'
    BY <1>2, <2>1, <2>2, <2>3, <2>4
  <2> QED
    BY <2>2, <2>3, <2>4, <2>5
<1>5. ASSUME NEW s \in Samples, TaskMoves(s)  PROVE TakenInOrder'
  <2>1. PICK to \in TaskState :
          /\ task[s] # "none"
          /\ task' = [task EXCEPT ![s] = to]
          /\ UNCHANGED <<processorVars, active, staleness, otherVars>>
    BY <1>5 DEF TaskMoves, TaskAdmitted, TaskAdmissionTimesOut, TaskGenerated,
       TaskGenerationFails, TaskEnqueued, TaskStoppedEnqueuing, TaskStep,
       TaskState
  <2>2. \A x \in Samples : task'[x] # "none" => task[x] # "none"
    BY <2>1 DEF RollouterData
  <2>3. "none" # to
    BY <1>5, <2>1 DEF TaskMoves, TaskAdmitted, TaskAdmissionTimesOut,
       TaskGenerated, TaskGenerationFails, TaskEnqueued, TaskStoppedEnqueuing,
       TaskStep, RollouterData
  <2> QED
    BY <2>1, <2>2, <2>3 DEF processorVars, otherVars, RollouterData
<1>6. CASE ProcessorEnds
  BY <1>6 DEF ProcessorEnds, PastEnd, sampleTasks, otherVars
<1>7. ASSUME NEW call \in {"pause", "update"}, CallRemote(call)
      PROVE  TakenInOrder'
  BY <1>7 DEF CallRemote, processorVars, sampleTasks
<1> QED
  BY <1>1, <1>3, <1>4, <1>5, <1>6, <1>7, ProcessorKeepsOrder DEF RollouterNext

LEMMA ServedOnce ==
  ASSUME lockQueue \in Seq(Coroutines), WaitsOnce, NEW c, LockFor(c), Served
  PROVE  /\ \A i, j \in DOMAIN lockQueue' :
               lockQueue'[i] = lockQueue'[j] => i = j
         /\ \A x : InSeq(lockQueue', x) => InSeq(lockQueue, x) /\ x # c
<1>1. CASE lockQueue = <<>>
  <2>1. DOMAIN lockQueue = {}
    BY <1>1, LenProperties, EmptySeq
  <2> QED
    BY <1>1, <2>1 DEF Served, InSeq
<1>2. CASE lockQueue # <<>>
  <2>1. /\ lockQueue' = Tail(lockQueue) /\ Head(lockQueue) = c
        /\ lockQueue' \in Seq(Coroutines)
        /\ Len(lockQueue') = Len(lockQueue) - 1
        /\ \A i \in 1 .. Len(lockQueue') : lockQueue'[i] = lockQueue[i + 1]
    BY <1>2, HeadTailProperties DEF Served, LockFor
  <2>2. /\ DOMAIN lockQueue = 1 .. Len(lockQueue)
        /\ DOMAIN lockQueue' = 1 .. Len(lockQueue')
        /\ Len(lockQueue) \in Nat /\ Len(lockQueue) # 0
    BY <1>2, <2>1, LenProperties, EmptySeq
  <2>3. \A i \in DOMAIN lockQueue' :
          /\ i \in Nat /\ i + 1 \in DOMAIN lockQueue /\ i + 1 # 1
          /\ lockQueue'[i] = lockQueue[i + 1]
    BY <2>1, <2>2
  <2>4. lockQueue[1] = c /\ 1 \in DOMAIN lockQueue
    BY <2>1, <2>2
  <2>5. \A i, j \in DOMAIN lockQueue' : lockQueue'[i] = lockQueue'[j] => i = j
    BY <2>3 DEF WaitsOnce
  <2>6. \A x : InSeq(lockQueue', x) => InSeq(lockQueue, x) /\ x # c
    BY <2>3, <2>4 DEF InSeq, WaitsOnce
  <2> QED
    BY <2>5, <2>6
<1> QED
  BY <1>1, <1>2

LEMMA QueuedOnce ==
  ASSUME lockQueue \in Seq(Coroutines), WaitsOnce, NEW c \in Coroutines,
         ~InSeq(lockQueue, c), lockQueue' = Append(lockQueue, c)
  PROVE  /\ \A i, j \in DOMAIN lockQueue' :
               lockQueue'[i] = lockQueue'[j] => i = j
         /\ \A x : InSeq(lockQueue', x) => InSeq(lockQueue, x) \/ x = c
<1>1. /\ lockQueue' \in Seq(Coroutines) /\ Len(lockQueue') = Len(lockQueue) + 1
      /\ lockQueue'[Len(lockQueue) + 1] = c
      /\ \A i \in 1 .. Len(lockQueue) : lockQueue'[i] = lockQueue[i]
  BY AppendProperties
<1>2. /\ DOMAIN lockQueue = 1 .. Len(lockQueue) /\ Len(lockQueue) \in Nat
      /\ DOMAIN lockQueue' = 1 .. Len(lockQueue) + 1
  BY <1>1, LenProperties
<1>3. \A i \in DOMAIN lockQueue' :
        \/ i \in DOMAIN lockQueue /\ lockQueue'[i] = lockQueue[i]
        \/ i = Len(lockQueue) + 1 /\ lockQueue'[i] = c
  BY <1>1, <1>2
<1> QED
  BY <1>3 DEF WaitsOnce, InSeq

LEMMA RollouterKeepsQueue ==
  ASSUME RollouterData, WaitsOnce, RollouterNext \/ UNCHANGED rollouterVars
  PROVE  WaitsOnce'
<1> USE DEF RollouterData
<1>1. CASE UNCHANGED <<lockQueue, monitor>>
  BY <1>1 DEF WaitsOnce, InSeq
<1>2. ASSUME NEW c, LockFor(c), Served,
             monitor' = "asleep" => c = "monitor" \/ monitor = "asleep"
      PROVE  WaitsOnce'
  BY <1>2, ServedOnce DEF WaitsOnce
<1>3. CASE LockStep
  <2>1. PICK c \in Coroutines : WaitForLock(c)
    BY <1>3 DEF LockStep, Coroutines
  <2>2. /\ ~InSeq(lockQueue, c) /\ lockQueue' = Append(lockQueue, c)
        /\ monitor' = monitor
        /\ c = "monitor" => monitor # "asleep"
    BY <2>1 DEF WaitForLock, WantsLock, otherVars, InSeq
  <2> QED
    BY <2>2, QueuedOnce DEF WaitsOnce
<1>4. CASE ProcessorStep
  <2>1. \/ UNCHANGED <<lockQueue, monitor>>
        \/ LockFor("processor") /\ Served /\ monitor' = monitor
    BY <1>4 DEF ProcessorStep, CheckPause, SetPaused, Sleep, Take,
       WaitForSample, Submit, ReapWait, ReapNoTasks, Reap, PassLock, KeepLock,
       Release, GoesOn, WaitsNow, lockVars, otherVars
  <2> QED
    BY <1>1, <1>2, <2>1
<1>5. CASE MonitorTurn \/ MonitorResume
  BY <1>2, <1>5 DEF MonitorTurn, MonitorResume, PassLock
<1>6. CASE MonitorCheck
  <2>1. CASE UNCHANGED lockQueue /\ monitor' # "asleep"
    BY <2>1 DEF WaitsOnce, InSeq
  <2>2. CASE monitor' = "resuming" /\ lockQueue' = Append(lockQueue, "monitor")
    <3>1. ~InSeq(lockQueue, "monitor")
      BY <1>6 DEF MonitorCheck, WaitsOnce
    <3> QED
      BY <2>2, <3>1, QueuedOnce DEF WaitsOnce, Coroutines
  <2> QED
    BY <1>6, <2>1, <2>2 DEF MonitorCheck, lockVars
<1>7. CASE RemoteStep
  <2>1. \/ UNCHANGED <<lockQueue, monitor>>
        \/ LockFor("remote") /\ Served /\ monitor' = monitor
    BY <1>7 DEF RemoteStep, PauseStarts, PauseClears, PauseReturns,
       UpdateStarts, UpdateResetsStaleness, UpdateReturns, Resume, RemoteOnly,
       PassLock, KeepLock, Release, lockVars
  <2> QED
    BY <1>1, <1>2, <2>1
<1>8. CASE StopRunning
  BY <1>2, <1>8 DEF StopRunning, PassLock
<1>9. CASE \E s \in Samples : TaskMoves(s)
  BY <1>1, <1>9 DEF TaskMoves, TaskAdmitted, TaskAdmissionTimesOut,
     TaskGenerated, TaskGenerationFails, TaskEnqueued, TaskStoppedEnqueuing,
     TaskStep, lockVars, otherVars
<1>10. CASE \/ Feed \/ ProcessorEnds
             \/ \E call \in {"pause", "update"} : CallRemote(call)
  BY <1>1, <1>10 DEF Feed, ProcessorEnds, CallRemote, lockVars, otherVars
<1>11. CASE UNCHANGED rollouterVars
  BY <1>1, <1>11 DEF rollouterVars, lockVars, otherVars
<1> QED
  BY <1>3, <1>4, <1>5, <1>6, <1>7, <1>8, <1>9, <1>10, <1>11
     DEF RollouterNext, MonitorStep

LEMMA InitRollouter == RollouterInit => RollouterInv
<1> SUFFICES ASSUME RollouterInit PROVE RollouterInv
  OBVIOUS
<1>1. /\ SampleCount \in Nat /\ SampleCount # 0
      /\ lockQueue \in Seq(Coroutines) /\ DOMAIN lockQueue = {}
  BY RollouterAssumption, EmptySeq, LenProperties DEF RollouterInit
<1>2. RollouterData
  <2>1. task \in [Samples -> TaskState] /\ processor \in ProcessorState
    BY DEF RollouterInit, ProcessorState, TaskState
  <2>2. /\ fed \in 0 .. SampleCount + 1 /\ taken \in 0 .. SampleCount
        /\ staleness \in Nat /\ resetTo \in Nat
    BY <1>1 DEF RollouterInit
  <2> QED
    BY <1>1, <2>1, <2>2 DEF RollouterInit, RollouterData
<1>3. HandHeld /\ TakenInOrder
  BY <1>1 DEF RollouterInit, HandHeld, HoldsHand, TakenInOrder, PastEnd
<1>4. WaitsOnce
  BY <1>1 DEF RollouterInit, WaitsOnce, InSeq
<1> QED
  BY <1>2, <1>3, <1>4 DEF RollouterInv

LEMMA StepKeepsRollouter == RollouterInv /\ [Next]_vars => RollouterInv'
BY RollouterSteps, RollouterKeepsData, RollouterKeepsHand, RollouterKeepsOrder,
   RollouterKeepsQueue DEF RollouterInv

LEMMA QueueIsBounded ==
  ASSUME lockQueue \in Seq(Coroutines), WaitsOnce
  PROVE  Len(lockQueue) <= 4
<1>1. /\ DOMAIN lockQueue = 1 .. Len(lockQueue) /\ Len(lockQueue) \in Nat
      /\ lockQueue \in [1 .. Len(lockQueue) -> Coroutines]
  BY LenProperties
<1>2. IsFiniteSet(Coroutines) /\ Cardinality(Coroutines) <= 4
  <2> DEFINE f == <<"processor", "monitor", "remote", "main">>
  <2>1. f \in Surjection(1 .. 4, Coroutines)
    BY DEF Surjection, Coroutines
  <2>2. IsFiniteSet(1 .. 4) /\ Cardinality(1 .. 4) = 4
    <3>1. 1 \in Int /\ 4 \in Int /\ ~(1 > 4) /\ 4 - 1 + 1 = 4
      OBVIOUS
    <3> HIDE DEF f
    <3> QED
      BY ONLY <3>1, FS_Interval
  <2> HIDE DEF f
  <2> QED
    BY <2>1, <2>2, FS_Surjection
<1>3. lockQueue \in Injection(1 .. Len(lockQueue), Coroutines)
  BY <1>1 DEF WaitsOnce, Injection, IsInjective
<1>4. Cardinality(1 .. Len(lockQueue)) = Len(lockQueue)
  <2> DEFINE n == Len(lockQueue)
  <2>1. 1 \in Int /\ n \in Int /\ (1 > n => n = 0) /\ n - 1 + 1 = n
    BY <1>1
  <2> HIDE DEF n
  <2>2. Cardinality(1 .. n) = n
    BY ONLY <2>1, FS_Interval
  <2> QED
    BY <2>2 DEF n
<1>5. Len(lockQueue) <= Cardinality(Coroutines)
  <2>1. Cardinality(1 .. Len(lockQueue)) <= Cardinality(Coroutines)
    BY <1>2, <1>3, FS_Injection
  <2> QED
    BY <1>4, <2>1
<1>6. Cardinality(Coroutines) \in Nat /\ Len(lockQueue) \in Nat
      /\ Cardinality(Coroutines) <= 4
  BY <1>1, <1>2, FS_CardinalityType
<1> QED
  BY ONLY <1>5, <1>6

-----------------------------------------------------------------------------
(* The data of the dispatcher and of its queues. *)

Items == Samples \union {EndMarker}

DispatcherData ==
  /\ rawQueue \in Seq(Items) /\ scoredQueue \in Seq(Items)
  /\ judging \in [Workers -> Seq(Samples)]
  /\ scored \subseteq Samples /\ unscored \subseteq Samples
  /\ payload \in Items
  /\ DispatcherTypeOK

(* What happens to the queues, the judges and the dispatcher in a step of  *)
(* the job.                                                                *)
JudgingOnly == UNCHANGED <<judgeVars, dispatcherVars>>

PutRaw(x) ==
  /\ rawQueue' = Append(rawQueue, x)
  /\ UNCHANGED scoredQueue /\ JudgingOnly

GetScored ==
  /\ scoredQueue # <<>>
  /\ scoredQueue' = Tail(scoredQueue)
  /\ UNCHANGED rawQueue /\ JudgingOnly

DispatcherNext ==
  \/ \E w \in Workers : JudgeFinishes(w)
  \/ Pull \/ PullNothing \/ ReapNothing \/ Publish \/ PublishEnd
  \/ \E s \in Samples : ReapScore(s)
  \/ Marked(TRUE) \/ Marked(FALSE)
  \/ \E x \in Items : PutRaw(x)
  \/ GetScored

pipelineVars == <<queues, judgeVars, dispatcherVars>>

LEMMA DispatcherSteps ==
  [Next]_vars => DispatcherNext \/ UNCHANGED pipelineVars
<1> SUFFICES ASSUME [Next]_vars
             PROVE  DispatcherNext \/ UNCHANGED pipelineVars
  OBVIOUS
<1> USE DEF queues, pipelineVars
<1>1. CASE InitialSynchronisation \/ RollouterAlone \/ MainStep
  BY <1>1 DEF InitialSynchronisation, RollouterAlone, MainStep, OutsideMain
<1>2. CASE EndGeneration
  BY <1>2 DEF EndGeneration, OutsideTasks, HasRoom, PutNowait, DispatcherNext,
              PutRaw, JudgingOnly, Items
<1>3. CASE RollouterStops
  BY <1>3 DEF RollouterStops, OutsideTasks
<1>4. ASSUME NEW s \in Samples, EnqueueRaw(s)
      PROVE  DispatcherNext \/ UNCHANGED pipelineVars
  BY <1>4 DEF EnqueueRaw, OutsideTasks, HasRoom, PutNowait, DispatcherNext,
              PutRaw, JudgingOnly, Items
<1>5. ASSUME NEW s \in Samples,
             Admit(s) \/ AdmissionTimesOut(s) \/ Generated(s)
             \/ GenerationFails(s)
      PROVE  UNCHANGED pipelineVars
  BY <1>5 DEF Admit, AdmissionTimesOut, Generated, GenerationFails,
              OutsideTasks
<1>6. CASE \E w \in Workers : Judge(w)
  BY <1>6 DEF Judge, DispatcherNext
<1>7. CASE DispatcherStep
  BY <1>7 DEF DispatcherStep, DispatcherAlone, DispatcherMarks, DispatcherNext,
              Marked
<1>8. CASE Collect
  BY <1>8 DEF Collect, OutsideTrainer, GetScored, JudgingOnly, DispatcherNext
<1>9. CASE TrainerStep /\ ~Collect
  BY <1>9 DEF TrainerStep, TrainerConsumes, TrainerAlone, StartSync,
              SyncVersion, TransferWeights, OutsideTrainer
<1>10. CASE UNCHANGED vars
  BY <1>10 DEF vars
<1> QED
  BY <1>1, <1>2, <1>3, <1>4, <1>5, <1>6, <1>7, <1>8, <1>9, <1>10
     DEF Next, TaskProgress

LEMMA WorkerIndices ==
  /\ JudgeWorkerCount \in Nat /\ JudgeWorkerCount # 0
  /\ \A i \in Workers : (i + 1) % JudgeWorkerCount \in Workers
BY DispatcherAssumption DEF Workers

LEMMA DispatcherKeepsData ==
  ASSUME DispatcherData, DispatcherNext \/ UNCHANGED pipelineVars
  PROVE  DispatcherData'
<1> USE DEF judgeVars, dispatcherVars
<1>1. ASSUME NEW w \in Workers, JudgeFinishes(w)  PROVE DispatcherData'
  <2>1. Tail(judging[w]) \in Seq(Samples) /\ Head(judging[w]) \in Samples
    BY <1>1, HeadTailProperties DEF JudgeFinishes, DispatcherData
  <2>2. judging' \in [Workers -> Seq(Samples)]
    BY <1>1, <2>1 DEF JudgeFinishes, DispatcherData
  <2> QED
    BY <1>1, <2>1, <2>2 DEF JudgeFinishes, DispatcherData, DispatcherTypeOK
<1>2. CASE Pull
  <2>1. Tail(rawQueue) \in Seq(Items) /\ Head(rawQueue) \in Items
    BY <1>2, HeadTailProperties DEF Pull, DispatcherData
  <2>2. CASE Head(rawQueue) = EndMarker
    BY <1>2, <2>1, <2>2 DEF Pull, DispatcherData, DispatcherTypeOK
  <2>3. CASE Head(rawQueue) # EndMarker
    <3>1. workerIndex \in Workers /\ workerIndex' \in Workers
      BY <1>2, <2>3, WorkerIndices DEF Pull, DispatcherData, DispatcherTypeOK
    <3>2. Append(judging[workerIndex], Head(rawQueue)) \in Seq(Samples)
      BY <2>1, <2>3, <3>1, AppendProperties DEF DispatcherData, Items
    <3>3. judging' \in [Workers -> Seq(Samples)]
      BY <1>2, <2>3, <3>1, <3>2 DEF Pull, DispatcherData
    <3> QED
      BY <1>2, <2>1, <2>3, <3>1, <3>3 DEF Pull, DispatcherData, DispatcherTypeOK
  <2> QED
    BY <2>2, <2>3
<1>3. CASE PullNothing \/ ReapNothing
  BY <1>3 DEF PullNothing, ReapNothing, DispatcherData, DispatcherTypeOK
<1>4. CASE Publish
  <2>1. scoredQueue' \in Seq(Items)
    BY <1>4, AppendProperties DEF Publish, PutNowait, DispatcherData
  <2> QED
    BY <1>4, <2>1 DEF Publish, DispatcherData, DispatcherTypeOK
<1>5. CASE PublishEnd
  <2>1. scoredQueue' \in Seq(Items)
    BY <1>5, AppendProperties DEF PublishEnd, PutNowait, DispatcherData, Items
  <2> QED
    BY <1>5, <2>1 DEF PublishEnd, DispatcherData, DispatcherTypeOK
<1>6. ASSUME NEW s \in Samples, ReapScore(s)  PROVE DispatcherData'
  BY <1>6 DEF ReapScore, Without, AfterError, DispatcherData, DispatcherTypeOK,
              Items
<1>7. CASE Marked(TRUE) \/ Marked(FALSE)
  BY <1>7 DEF Marked, AfterError, DispatcherData, DispatcherTypeOK, Items
<1>8. ASSUME NEW x \in Items, PutRaw(x)  PROVE DispatcherData'
  <2>1. rawQueue' \in Seq(Items)
    BY <1>8, AppendProperties DEF PutRaw, DispatcherData
  <2> QED
    BY <1>8, <2>1 DEF PutRaw, JudgingOnly, DispatcherData, DispatcherTypeOK
<1>9. CASE GetScored
  <2>1. scoredQueue' \in Seq(Items)
    BY <1>9, HeadTailProperties DEF GetScored, DispatcherData
  <2> QED
    BY <1>9, <2>1 DEF GetScored, JudgingOnly, DispatcherData, DispatcherTypeOK
<1>10. CASE UNCHANGED pipelineVars
  BY <1>10 DEF pipelineVars, queues, DispatcherData, DispatcherTypeOK
<1> QED
  BY <1>1, <1>2, <1>3, <1>4, <1>5, <1>6, <1>7, <1>8, <1>9, <1>10
     DEF DispatcherNext

LEMMA InitDispatcher == DispatcherInit => DispatcherData
<1>1. 0 \in Workers /\ \A S : <<>> \in Seq(S)
  BY DispatcherAssumption, EmptySeq DEF Workers
<1> QED
  BY <1>1 DEF DispatcherInit, DispatcherData, DispatcherTypeOK, Items

-----------------------------------------------------------------------------
(* The coordinator inside the job. *)

(* The job calls nothing of the coordinator but its methods, and for no    *)
(* group but a member.                                                     *)
LEMMA CoordinatorSteps ==
  CoordinatorIInv /\ [Next]_vars => [CoordinatorNext]_coordinatorVars
<1> SUFFICES ASSUME CoordinatorIInv, [Next]_vars
             PROVE  [CoordinatorNext]_coordinatorVars
  OBVIOUS
<1>0. admitted \subseteq GroupIds
  BY DEF CoordinatorIInv, CoordinatorTypeOK
<1>1. CASE InitialSynchronisation \/ RollouterAlone \/ MainStep
  BY <1>1 DEF InitialSynchronisation, RollouterAlone, MainStep, OutsideMain
<1>2. CASE EndGeneration \/ RollouterStops
  BY <1>2 DEF EndGeneration, RollouterStops
<1>3. ASSUME NEW s \in Samples, TaskProgress(s) \/ GenerationFails(s)
      PROVE  [CoordinatorNext]_coordinatorVars
  BY <1>3 DEF TaskProgress, Admit, AdmissionTimesOut, Generated,
              GenerationFails, EnqueueRaw, CoordinatorNext
<1>4. CASE \E w \in Workers : Judge(w)
  BY <1>4 DEF Judge
<1>5. CASE DispatcherAlone
  BY <1>5 DEF DispatcherAlone
<1>6. CASE DispatcherMarks
  BY <1>0, <1>6 DEF DispatcherMarks, IsMember, CoordinatorNext
<1>7. CASE TrainerConsumes
  BY <1>0, <1>7 DEF TrainerConsumes, IsMember, CoordinatorNext
<1>8. CASE TrainerStep /\ ~TrainerConsumes
  BY <1>8 DEF TrainerStep, Collect, TrainerAlone, StartSync, SyncVersion,
              TransferWeights, CoordinatorNext
<1>9. CASE UNCHANGED vars
  BY <1>9 DEF vars
<1> QED
  BY <1>1, <1>2, <1>3, <1>4, <1>5, <1>6, <1>7, <1>8, <1>9
     DEF Next, DispatcherStep

LEMMA StepKeepsCoordinator ==
  CoordinatorIInv /\ [Next]_vars => CoordinatorIInv'
BY CoordinatorSteps, StepKeepsIInv

(* In the job as on its own, the coordinator's inductive invariant holds.  *)
THEOREM CoordinatorInvariantInJob == Spec => []CoordinatorIInv
<1>1. Init => CoordinatorIInv
  BY InitIInv DEF Init
<1> QED
  BY <1>1, StepKeepsCoordinator, PTL DEF Spec

(* No group identifier is given out twice and no window outgrows its       *)
(* target, however rollouter, dispatcher and trainer interleave.           *)
THEOREM JobNumbersMembers == Spec => []MembersAreNumbered
<1>1. CoordinatorIInv => MembersAreNumbered
  BY DEF CoordinatorIInv
<1> QED
  BY <1>1, CoordinatorInvariantInJob, PTL

(* A sealed window of the job still awaits a reward.                       *)
THEOREM JobNeverStuckSealed == Spec => []SealedAwaitsReward
<1>1. CoordinatorIInv => SealedAwaitsReward
  BY DEF CoordinatorIInv
<1> QED
  BY <1>1, CoordinatorInvariantInJob, PTL

(* The job drives the coordinator as the coordinator's specification       *)
(* allows, so its windows implement OnPolicyWindows.                       *)
THEOREM JobImplementsWindows == Spec => CoordinatorImplementsWindows
<1>1. Init => CoordinatorInit
  BY DEF Init
<1> QED
  BY <1>1, CoordinatorSteps, CoordinatorInvariantInJob,
     CoordinatorImplementsOnPolicyWindows, PTL DEF Spec, CoordinatorSpec

-----------------------------------------------------------------------------
(* The trainer and the version it holds. *)

TrainerData ==
  /\ trainer \in {"initialSync", "initFailed", "collect", "consume", "train",
                  "waitValid", "version", "weights", "finish", "finalWait",
                  "done", "failed"}
  /\ batch \in Seq(Samples)
  /\ consumedCount \in Nat
  /\ localStep \in 1 .. SyncStep
  /\ trainerVersion \in Nat /\ weights \in Nat
  /\ finishing \in BOOLEAN
  /\ trained \subseteq Samples \X Nat
  /\ main \in {"initialising", "running", "returned", "raised"}

(* The batch is collected, then consumed, then trained on, and given up.   *)
BatchFills ==
  /\ trainer \in {"initialSync", "initFailed", "collect"} =>
       consumedCount = 0 /\ Len(batch) < RequiredSamples
  /\ trainer = "consume" =>
       consumedCount < RequiredSamples /\ Len(batch) = RequiredSamples
  /\ trainer = "train" =>
       consumedCount = RequiredSamples /\ Len(batch) = RequiredSamples
  /\ trainer = "failed" => consumedCount <= RequiredSamples
  /\ trainer \in {"waitValid", "version", "weights", "finish", "finalWait",
                  "done"} => consumedCount = 0 /\ batch = <<>>

(* The optimizer has stepped since the last synchronisation.               *)
SteppedOn == \E e \in trained : e[2] = paramVersion

(* Which version the trainer, the rollout engine and the coordinator hold. *)
VersionsAgree ==
  /\ main = "initialising" <=> trainer = "initialSync"
  /\ trainer = "initFailed" => main = "raised"
  /\ trainer = "initialSync" =>
       paramVersion = 0 /\ weights = trainerVersion /\ localStep = 1
  /\ trainer \in {"initialSync", "initFailed", "collect", "consume", "train",
                  "finish"} => ~finishing
  /\ trainer \in {"finalWait", "done"} => finishing
  /\ trainer \in {"collect", "consume", "train", "finish"} =>
       trainerVersion = paramVersion /\ weights = paramVersion
  /\ ~finishing /\ trainer \in {"waitValid", "version"} =>
       trainerVersion = paramVersion + 1 /\ weights = paramVersion
  /\ ~finishing /\ trainer = "weights" => trainerVersion = paramVersion
  /\ ~finishing /\ trainer = "failed" => weights = paramVersion
  /\ trainer \in {"waitValid", "version", "weights"} => localStep = 1
  /\ trainer \in {"collect", "consume", "train", "finish"} /\ localStep > 1 =>
       SteppedOn
  /\ finishing => \/ trainerVersion = paramVersion
                  \/ trainerVersion = paramVersion + 1 /\ SteppedOn
  /\ finishing /\ trainer = "failed" => SteppedOn

(* Where a remote call is, the synchronizer is.                            *)
RemoteFollows ==
  /\ remote \in {"pause", "pausing", "cleared"} => trainer = "version"
  /\ remote = "paused" => trainer \in {"version", "weights", "failed"}
  /\ trainer = "version" => remote \in {"pause", "pausing", "cleared", "paused"}
  /\ trainer = "weights" => remote = "paused"

TrainerInv == TrainerData /\ BatchFills /\ VersionsAgree /\ RemoteFollows

trainerSide == <<trainerVars, main, paramVersion, remote>>

RemoteAlone == RemoteStep /\ UNCHANGED <<trainerVars, main, paramVersion>>

LEMMA TrainerSteps ==
  [Next]_vars =>
    \/ InitialSynchronisation
    \/ Running /\ (TrainerStep \/ MainStep \/ RemoteAlone)
    \/ UNCHANGED trainerSide
<1> SUFFICES ASSUME [Next]_vars
             PROVE  \/ InitialSynchronisation
                    \/ Running /\ (TrainerStep \/ MainStep \/ RemoteAlone)
                    \/ UNCHANGED trainerSide
  OBVIOUS
<1> USE DEF trainerSide, coordinatorVars, jobVars, sampleVars
<1>1. ASSUME Running, RollouterAlone
      PROVE  RemoteAlone \/ UNCHANGED trainerSide
  <2>1. UNCHANGED <<trainerVars, main, paramVersion>>
    BY <1>1 DEF RollouterAlone
  <2>2. Feed \/ LockStep \/ ProcessorStep \/ MonitorStep => remote' = remote
    BY DEF Feed, LockStep, WaitForLock, ProcessorStep, CheckPause, SetPaused,
       Sleep, Take, WaitForSample, Submit, ReapWait, ReapNoTasks, Reap, GoesOn,
       WaitsNow, MonitorStep, MonitorTurn, MonitorCheck, MonitorResume,
       MonitorOnly, otherVars
  <2> QED
    BY <1>1, <2>1, <2>2 DEF RollouterAlone, RemoteAlone
<1>2. CASE EndGeneration \/ RollouterStops
  BY <1>2 DEF EndGeneration, RollouterStops, OutsideTasks, ProcessorEnds,
              StopRunning, otherVars
<1>3. ASSUME NEW s \in Samples, TaskProgress(s) \/ GenerationFails(s)
      PROVE  UNCHANGED trainerSide
  BY <1>3 DEF TaskProgress, Admit, RequestAdmission, AdmissionTimesOut,
       Generated, GenerationFails, EnqueueRaw, OutsideTasks, TaskAdmitted,
       TaskAdmissionTimesOut, TaskGenerated, TaskGenerationFails,
       TaskEnqueued, TaskStoppedEnqueuing, TaskStep, otherVars
<1>4. CASE (\E w \in Workers : Judge(w)) \/ DispatcherStep
  BY <1>4 DEF Judge, DispatcherStep, DispatcherAlone, DispatcherMarks,
              MarkRewardDone, OutsideJudging, rollouterVars, otherVars
<1>5. CASE UNCHANGED vars
  BY <1>5 DEF vars, rollouterVars, otherVars
<1> QED
  BY <1>1, <1>2, <1>3, <1>4, <1>5 DEF Next

LEMMA TrainerNumbers ==
  /\ RequiredSamples \in Nat /\ RequiredSamples # 0
  /\ SyncStep \in Nat /\ SyncStep # 0
  /\ CoordinatorIInv => paramVersion \in Nat
BY TrainerAssumption, VersionAssumption DEF CoordinatorIInv, CoordinatorTypeOK

LEMMA TrainKeepsData ==
  ASSUME TrainerData, Train
  PROVE  trained' \subseteq Samples \X Nat
<1>1. \A i \in DOMAIN batch : batch[i] \in Samples
  BY LenProperties, ElementOfSeq DEF TrainerData
<1> QED
  BY <1>1 DEF Train, TrainerData

LEMMA TrainerStepKeeps ==
  ASSUME CoordinatorIInv, TrainerInv, RollouterInv, DispatcherData,
         Running, TrainerStep
  PROVE  TrainerInv'
<1> USE TrainerNumbers
    DEF TrainerInv, VersionsAgree, RemoteFollows, OutsideTrainer, jobVars,
        SteppedOn
<1>0. batch = <<>> => Len(batch) = 0
  BY EmptySeq
<1>1. CASE Collect
  <2>1. CASE CollectEnd
    <3>1. <<>> \in Seq(Samples) /\ Len(<<>>) = 0
      BY EmptySeq
    <3>2. TrainerData'
      BY <1>1, <2>1, <3>1 DEF Collect, CollectEnd, TrainerData
    <3>3. BatchFills'
      BY <1>1, <2>1, <3>1 DEF Collect, CollectEnd, BatchFills
    <3> QED
      BY <1>1, <2>1, <3>2, <3>3
         DEF Collect, CollectEnd, rollouterVars, otherVars, coordinatorVars
  <2>2. CASE CollectSample(Head(scoredQueue)) /\ Head(scoredQueue) # EndMarker
    <3>1. Head(scoredQueue) \in Samples
      BY <1>1, <2>2, HeadTailProperties DEF DispatcherData, Collect, Items
    <3>2. batch' \in Seq(Samples) /\ Len(batch') = Len(batch) + 1
          /\ Len(batch) \in Nat
      BY <2>2, <3>1, AppendProperties, LenProperties
         DEF TrainerData, CollectSample
    <3>3. TrainerData'
      BY <1>1, <2>2, <3>2 DEF Collect, CollectSample, TrainerData
    <3>4. BatchFills'
      BY <2>2, <3>2 DEF CollectSample, BatchFills
    <3> QED
      BY <1>1, <2>2, <3>3, <3>4
         DEF Collect, CollectSample, rollouterVars, otherVars, coordinatorVars
  <2> QED
    BY <1>1, <2>1, <2>2 DEF Collect
<1>2. CASE TrainerConsumes
  <2>1. PICK ok \in BOOLEAN : ConsumedNext(ok)
    BY <1>2 DEF TrainerConsumes, IsMember, ConsumedNext
  <2>2. UNCHANGED <<main, remote, paramVersion>>
    BY <1>2 DEF TrainerConsumes, MarkConsumed, rollouterVars, otherVars,
                coordinatorVars
  <2>3. TrainerData' /\ BatchFills'
    BY <2>1, <2>2 DEF ConsumedNext, TrainerData, BatchFills
  <2> QED
    BY <2>1, <2>2, <2>3 DEF ConsumedNext
<1>3. CASE TrainerAlone
  <2>1. UNCHANGED <<main, remote, paramVersion>>
    BY <1>3 DEF TrainerAlone, rollouterVars, otherVars, coordinatorVars
  <2>2. <<>> \in Seq(Samples) /\ Len(<<>>) = 0
    BY EmptySeq
  <2>3. CASE Train
    <3>1. TrainerData'
      BY <2>1, <2>2, <2>3, TrainKeepsData DEF Train, SyncDue, TrainerData
    <3>2. BatchFills'
      BY <2>2, <2>3 DEF Train, BatchFills
    <3>3. SteppedOn'
      <4> HIDE DEF SteppedOn
      <4>1. 1 \in DOMAIN batch
        BY <2>3, LenProperties DEF Train, BatchFills, TrainerData
      <4>2. <<batch[1], trainerVersion>> \in trained'
        BY <2>3, <4>1 DEF Train
      <4> QED
        BY <2>1, <2>3, <4>2 DEF Train, SteppedOn
    <3> HIDE DEF SteppedOn
    <3> QED
      BY <2>1, <2>3, <3>1, <3>2, <3>3 DEF Train, TrainerData
  <2>4. CASE FinalValidation
    <3>1. TrainerData' /\ BatchFills'
      BY <2>1, <2>4 DEF FinalValidation, BumpAtEnd, TrainerData, BatchFills
    <3>2. SteppedOn' <=> SteppedOn
      BY <2>1, <2>4 DEF FinalValidation
    <3> HIDE DEF SteppedOn
    <3>3. VersionsAgree'
      BY <2>1, <2>4, <3>2 DEF FinalValidation, BumpAtEnd, TrainerData
    <3> QED
      BY <1>3, <2>1, <2>4, <3>1, <3>3 DEF FinalValidation, TrainerAlone
  <2>5. CASE FinalWait
    BY <1>3, <2>1, <2>5 DEF FinalWait, MoveTo, TrainerData, BatchFills
  <2> QED
    BY <1>3, <2>3, <2>4, <2>5 DEF TrainerAlone
<1>4. CASE StartSync
  BY <1>4 DEF StartSync, CallPause, CallRemote, MoveTo, TrainerData, BatchFills,
              coordinatorVars
<1>5. CASE SyncVersion
  <2>1. UNCHANGED <<main, remote>>
    BY <1>5 DEF SyncVersion, rollouterVars, otherVars
  <2>2. CASE KeepVersion /\ VersionIsCurrent(paramVersion)
             /\ UNCHANGED coordinatorVars
    BY <1>5, <2>1, <2>2 DEF SyncVersion, KeepVersion, MoveTo, VersionIsCurrent,
       TrainerData, BatchFills, coordinatorVars
  <2>3. CASE AdvanceVersion /\ VersionAdvanced(paramVersion + 1)
             /\ VersionMayAdvance(paramVersion)
    BY <1>5, <2>1, <2>3 DEF SyncVersion, VersionAdvanced, AdvanceVersion,
       VersionMayAdvance, MoveTo, TrainerData, BatchFills
  <2>4. CASE VersionRefused(paramVersion, ReadyForSync)
             /\ UNCHANGED coordinatorVars
    <3>1. SteppedOn' <=> SteppedOn
      BY <2>4 DEF VersionRefused, MoveTo, coordinatorVars
    <3> HIDE DEF SteppedOn
    <3>2. TrainerData' /\ BatchFills'
      BY <2>1, <2>4 DEF VersionRefused, MoveTo, TrainerData, BatchFills
    <3>3. VersionsAgree'
      BY <2>1, <2>4, <3>1 DEF VersionRefused, VersionIsCurrent, MoveTo,
         coordinatorVars
    <3> QED
      BY <1>5, <2>1, <2>4, <3>2, <3>3 DEF SyncVersion, VersionRefused, MoveTo
  <2> QED
    BY <1>5, <2>2, <2>3, <2>4 DEF SyncVersion
<1>6. CASE TransferWeights
  BY <1>6 DEF TransferWeights, SyncWeights, CallRemote,
       TrainerData, BatchFills, coordinatorVars
<1> QED
  BY <1>1, <1>2, <1>3, <1>4, <1>5, <1>6 DEF TrainerStep

LEMMA StepKeepsTrainer ==
  CoordinatorIInv /\ RollouterInv /\ DispatcherData /\ TrainerInv
    /\ [Next]_vars => TrainerInv'
<1> SUFFICES ASSUME CoordinatorIInv, RollouterInv, DispatcherData, TrainerInv,
                    [Next]_vars
             PROVE  TrainerInv'
  OBVIOUS
<1> USE DEF TrainerInv, VersionsAgree, RemoteFollows, SteppedOn
<1>1. CASE InitialSynchronisation
  BY <1>1, TrainerNumbers DEF InitialSynchronisation, InitialSync,
     VersionIsCurrent, MoveTo, OutsideMain, TrainerData, BatchFills,
     rollouterVars, otherVars, coordinatorVars
<1>2. CASE Running /\ TrainerStep
  BY <1>2, TrainerStepKeeps
<1>3. CASE Running /\ MainStep
  BY <1>3 DEF Running, MainStep, MainReturns, MainRaises, OutsideMain,
     TrainerData, BatchFills, trainerVars, rollouterVars, otherVars,
     coordinatorVars
<1>4. CASE RemoteAlone
  BY <1>4 DEF RemoteAlone, RemoteStep, PauseStarts, PauseClears, PauseReturns,
     UpdateStarts, UpdateResetsStaleness, UpdateReturns, Resume,
     TrainerData, BatchFills, trainerVars
<1>5. CASE UNCHANGED trainerSide
  BY <1>5 DEF trainerSide, trainerVars, TrainerData, BatchFills
<1> QED
  BY <1>1, <1>2, <1>3, <1>4, <1>5, TrainerSteps

LEMMA InitTrainer == Init => TrainerInv
<1> SUFFICES ASSUME Init PROVE TrainerInv
  OBVIOUS
<1>1. <<>> \in Seq(Samples) /\ Len(<<>>) = 0
  BY EmptySeq
<1>2. TrainerData
  <2>1. localStep \in 1 .. SyncStep /\ trainerVersion \in Nat
        /\ weights \in Nat
    BY TrainerAssumption DEF Init, TrainerInit
  <2>2. batch \in Seq(Samples)
    BY <1>1 DEF Init, TrainerInit
  <2>3. consumedCount \in Nat /\ finishing \in BOOLEAN
        /\ trained \subseteq Samples \X Nat
    BY DEF Init, TrainerInit
  <2> QED
    BY <2>1, <2>2, <2>3 DEF Init, TrainerInit, TrainerData
<1>3. BatchFills
  BY <1>1, TrainerNumbers DEF Init, TrainerInit, BatchFills
<1>4. VersionsAgree /\ RemoteFollows
  BY DEF Init, TrainerInit, CoordinatorInit, RollouterInit, VersionsAgree,
         RemoteFollows
<1> QED
  BY <1>2, <1>3, <1>4 DEF TrainerInv

-----------------------------------------------------------------------------
(* The first layer: rollouter, dispatcher, coordinator and trainer.        *)
ComponentsInv ==
  RollouterInv /\ DispatcherData /\ CoordinatorIInv /\ TrainerInv

THEOREM ComponentsInvariant == Spec => []ComponentsInv
<1>1. Init => ComponentsInv
  BY InitRollouter, InitDispatcher, InitIInv, InitTrainer
     DEF Init, ComponentsInv
<1>2. ComponentsInv /\ [Next]_vars => ComponentsInv'
  BY StepKeepsRollouter, DispatcherSteps, DispatcherKeepsData,
     StepKeepsCoordinator, StepKeepsTrainer DEF ComponentsInv
<1> QED
  BY <1>1, <1>2, PTL DEF Spec

(* _maybe_run_final_validation: whatever queues, judges and windows do, the *)
(* last synchronisation is refused only if the optimizer has stepped since  *)
(* the one before, and the version was bumped for it.                       *)
THEOREM FinalSyncOnlyFailsMidway == Spec => []FinalSyncFailsMidway
<1>1. ComponentsInv => FinalSyncFailsMidway
  BY DEF ComponentsInv, TrainerInv, VersionsAgree, SteppedOn,
         FinalSyncFailsMidway
<1> QED
  BY <1>1, ComponentsInvariant, PTL

-----------------------------------------------------------------------------
(* What a step of the job does to the samples: their tasks, their groups   *)
(* and their places in the pipeline.                                       *)
sampleState ==
  <<task, pipelineVars, trainerVars, coordinatorVars, sampleVars>>

TaskGoesOn(s) ==
  /\ \/ /\ task[s] = "none" /\ s = hand
        /\ task' = [task EXCEPT ![s] = "admission"]
     \/ /\ task[s] \in {"admission", "generating", "enqueue"}
        /\ task' = [task EXCEPT ![s] = "failed"]
     \/ /\ task[s] = "generating"
        /\ task' = [task EXCEPT ![s] = "enqueue"]
  /\ UNCHANGED <<pipelineVars, trainerVars, coordinatorVars, sampleVars>>

TaskEnds(s) ==
  /\ task[s] = "enqueue"
  /\ task' = [task EXCEPT ![s] = "ok"]
  /\ PutRaw(s)
  /\ UNCHANGED <<trainerVars, coordinatorVars, sampleVars>>

EndIsPut ==
  /\ PutRaw(EndMarker)
  /\ UNCHANGED <<task, trainerVars, coordinatorVars, sampleVars>>

LEMMA RollouterAloneSteps ==
  ASSUME RollouterInv, RollouterAlone
  PROVE  UNCHANGED sampleState \/ (\E s \in Samples : TaskGoesOn(s))
<1>1. UNCHANGED <<pipelineVars, trainerVars, coordinatorVars, sampleVars>>
  BY DEF RollouterAlone, pipelineVars, jobVars
<1>2. CASE Submit
  <2>1. hand \in Samples /\ task[hand] = "none"
    BY <1>2 DEF RollouterInv, RollouterData, HandHeld, HoldsHand, TakenInOrder,
                Submit
  <2> QED
    BY <1>1, <1>2, <2>1 DEF Submit, TaskGoesOn, sampleState
<1>3. CASE ProcessorStep /\ ~Submit
  BY <1>1, <1>3 DEF ProcessorStep, CheckPause, SetPaused, Sleep, Take,
     WaitForSample, ReapWait, ReapNoTasks, Reap, sampleTasks, sampleState
<1>4. CASE Feed \/ LockStep \/ MonitorStep \/ RemoteStep
  BY <1>1, <1>4 DEF Feed, LockStep, WaitForLock, MonitorStep, MonitorTurn,
     MonitorCheck, MonitorResume, MonitorOnly, RemoteStep, PauseStarts,
     PauseClears, PauseReturns, UpdateStarts, UpdateResetsStaleness,
     UpdateReturns, Resume, RemoteOnly, sampleTasks, sampleState
<1> QED
  BY <1>2, <1>3, <1>4 DEF RollouterAlone

LEMMA JobSteps ==
  ASSUME RollouterInv, [Next]_vars
  PROVE  \/ UNCHANGED sampleState
         \/ \E s \in Samples : TaskGoesOn(s) \/ Admit(s) \/ TaskEnds(s)
         \/ EndIsPut
         \/ \E w \in Workers : Judge(w)
         \/ DispatcherAlone \/ DispatcherMarks
         \/ TrainerStep \/ InitialSynchronisation
<1> USE DEF pipelineVars, queues
<1>1. CASE EndGeneration
  BY <1>1 DEF EndGeneration, ProcessorEnds, OutsideTasks, HasRoom, PutNowait,
     EndIsPut, PutRaw, JudgingOnly, jobVars, sampleTasks
<1>2. CASE RollouterStops
  BY <1>2 DEF RollouterStops, StopRunning, OutsideTasks, jobVars, sampleTasks,
              sampleState
<1>3. ASSUME NEW s \in Samples,
             AdmissionTimesOut(s) \/ Generated(s) \/ GenerationFails(s)
      PROVE  TaskGoesOn(s)
  BY <1>3 DEF AdmissionTimesOut, Generated, GenerationFails,
     TaskAdmissionTimesOut, TaskGenerated, TaskGenerationFails, TaskStep,
     OutsideTasks, TaskGoesOn, jobVars
<1>4. ASSUME NEW s \in Samples, EnqueueRaw(s)
      PROVE  TaskGoesOn(s) \/ TaskEnds(s)
  BY <1>4 DEF EnqueueRaw, TaskEnqueued, TaskStoppedEnqueuing, TaskStep,
     OutsideTasks, TaskGoesOn, TaskEnds, PutRaw, JudgingOnly, HasRoom,
     PutNowait, jobVars
<1>5. CASE MainStep
  BY <1>5 DEF MainStep, OutsideMain, rollouterVars, sampleTasks, sampleState
<1>6. CASE UNCHANGED vars
  BY <1>6 DEF vars, rollouterVars, sampleTasks, jobVars, sampleState
<1> QED
  BY <1>1, <1>2, <1>3, <1>4, <1>5, <1>6, RollouterAloneSteps
     DEF Next, TaskProgress, DispatcherStep

-----------------------------------------------------------------------------
(* The groups.  A sample gets its identifier with its admission, no two    *)
(* samples share one, and every admitted identifier is some sample's.      *)
GroupData ==
  /\ group \in [Samples -> GroupIds \union {NoGroup}]
  /\ madeWith \in [Samples -> SUBSET Nat]

OneGroupEach ==
  /\ \A s \in Samples : group[s] # NoGroup => group[s] \in IdsUsed
  /\ \A s, t \in Samples : group[s] = group[t] /\ group[s] # NoGroup => s = t
  /\ \A s \in Samples :
       /\ task[s] \in {"none", "admission"} => group[s] = NoGroup
       /\ task[s] \in {"generating", "enqueue", "ok"} => group[s] # NoGroup
  /\ \A g \in admitted : \E s \in Samples : group[s] = g

GroupsInv == GroupData /\ OneGroupEach

LEMMA NoGroupIsNoId == NoGroup \notin GroupIds
BY DEF NoGroup, GroupIds

LEMMA IdsUsedAreIds == CoordinatorIInv => IdsUsed \subseteq GroupIds
<1> SUFFICES ASSUME CoordinatorIInv PROVE IdsUsed \subseteq GroupIds
  OBVIOUS
<1>1. 0 .. paramVersion - 1 \subseteq 0 .. MaxVersion
  BY VersionAssumption DEF CoordinatorIInv, CoordinatorTypeOK
<1>2. (0 .. paramVersion - 1) \X (0 .. TargetGroupCount - 1) \subseteq GroupIds
  BY <1>1 DEF GroupIds
<1> QED
  BY <1>2 DEF IdsUsed, CoordinatorIInv, CoordinatorTypeOK

LEMMA CoordinatorKeepsIds ==
  ASSUME CoordinatorIInv, [CoordinatorNext]_coordinatorVars, ~RequestAdmission
  PROVE  IdsUsed' = IdsUsed /\ admitted' \subseteq admitted
<1>1. CASE AdvanceVersion
  BY <1>1, AdvanceKeepsIds DEF AdvanceVersion
<1>2. CASE ~AdvanceVersion
  BY <1>2 DEF CoordinatorNext, MarkRewardDone, MarkConsumed, IdsUsed,
              coordinatorVars
<1> QED
  BY <1>1, <1>2

(* Anything but an admission leaves the groups as they are.                *)
LEMMA WithoutAdmission ==
  ASSUME RollouterInv, CoordinatorIInv, [Next]_vars,
         ~(\E s \in Samples : Admit(s))
  PROVE  /\ group' = group /\ IdsUsed' = IdsUsed /\ admitted' \subseteq admitted
         /\ \A s \in Samples :
              \/ task'[s] = task[s] \/ task'[s] = "failed"
              \/ task[s] = "none" /\ task'[s] = "admission"
              \/ task[s] = "generating" /\ task'[s] = "enqueue"
              \/ task[s] = "enqueue" /\ task'[s] = "ok"
<1>1. IdsUsed' = IdsUsed /\ admitted' \subseteq admitted
  <2>0. nextIndex + 1 # nextIndex
    BY TargetAssumption DEF CoordinatorIInv, CoordinatorTypeOK
  <2>1. ~RequestAdmission \/ UNCHANGED coordinatorVars
    <3>1. CASE TrainerStep
      BY <2>0, <3>1 DEF TrainerStep, Collect, TrainerConsumes, MarkConsumed,
         TrainerAlone, StartSync, SyncVersion, AdvanceVersion, TransferWeights,
         ReadyForSync, RequestAdmission
    <3>2. CASE DispatcherMarks
      BY <2>0, <3>2 DEF DispatcherMarks, MarkRewardDone, RequestAdmission
    <3> QED
      BY <3>1, <3>2, JobSteps DEF sampleState, TaskGoesOn, TaskEnds, EndIsPut,
         Judge, DispatcherAlone, InitialSynchronisation, OutsideMain
  <2> QED
    BY <2>1, CoordinatorSteps, CoordinatorKeepsIds DEF IdsUsed, coordinatorVars
<1>2. /\ group' = group
      /\ \/ task' = task
         \/ \E s \in Samples : TaskGoesOn(s) \/ TaskEnds(s)
  <2>1. CASE TrainerStep
    BY <2>1 DEF TrainerStep, Collect, TrainerConsumes, TrainerAlone, StartSync,
       SyncVersion, TransferWeights, OutsideTrainer, CallRemote, jobVars,
       sampleVars, rollouterVars, sampleTasks
  <2> QED
    BY <2>1, JobSteps DEF sampleState, TaskGoesOn, TaskEnds, EndIsPut, Judge,
       DispatcherAlone, DispatcherMarks, OutsideJudging, jobVars, sampleVars,
       rollouterVars, sampleTasks, InitialSynchronisation, OutsideMain
<1> QED
  BY <1>1, <1>2
     DEF TaskGoesOn, TaskEnds, RollouterInv, RollouterData

LEMMA AdmissionKeepsGroups ==
  ASSUME RollouterInv, CoordinatorIInv, TrainerInv, GroupsInv,
         NEW s \in Samples, Admit(s)
  PROVE  GroupsInv'
<1>1. /\ NextGroupId \in GroupIds /\ NextGroupId \notin IdsUsed
      /\ IdsUsed' = IdsUsed \union {NextGroupId}
      /\ admitted' = admitted \union {NextGroupId}
  BY AdmissionUsesFreshId DEF Admit, RequestAdmission
<1>2. group' = [group EXCEPT ![s] = NextGroupId]
      /\ task[s] = "admission" /\ task' = [task EXCEPT ![s] = "generating"]
      /\ madeWith' = [madeWith EXCEPT ![s] = {weights}]
  BY DEF Admit, TaskAdmitted, TaskStep
<1>3. GroupData'
  BY <1>1, <1>2 DEF GroupsInv, GroupData, TrainerInv, TrainerData
<1>4. OneGroupEach'
  <2>1. group[s] = NoGroup /\ NextGroupId # NoGroup
        /\ \A t \in Samples : group[t] # NextGroupId
    BY <1>1, <1>2, NoGroupIsNoId DEF GroupsInv, OneGroupEach
  <2>2. \A t \in Samples : t # s => group'[t] = group[t] /\ task'[t] = task[t]
    BY <1>2 DEF GroupsInv, GroupData, RollouterInv, RollouterData
  <2>3. group'[s] = NextGroupId /\ task'[s] = "generating"
    BY <1>2 DEF GroupsInv, GroupData, RollouterInv, RollouterData
  <2>4. \A g \in admitted' : \E t \in Samples : group'[t] = g
    <3> SUFFICES ASSUME NEW g \in admitted'
                 PROVE  \E t \in Samples : group'[t] = g
      OBVIOUS
    <3>1. CASE g = NextGroupId
      BY <2>3, <3>1
    <3>2. CASE g \in admitted
      <4>1. PICK t \in Samples : group[t] = g
        BY <3>2 DEF GroupsInv, OneGroupEach
      <4>2. t # s
        BY <2>1, <3>2, <4>1, NoGroupIsNoId
           DEF CoordinatorIInv, CoordinatorTypeOK
      <4> QED
        BY <2>2, <4>1, <4>2
    <3> QED
      BY <1>1, <3>1, <3>2
  <2> QED
    BY <1>1, <2>1, <2>2, <2>3, <2>4 DEF GroupsInv, OneGroupEach
<1> QED
  BY <1>3, <1>4 DEF GroupsInv

LEMMA StepKeepsGroups ==
  ComponentsInv /\ GroupsInv /\ [Next]_vars => GroupsInv'
<1> SUFFICES ASSUME ComponentsInv, GroupsInv, [Next]_vars PROVE GroupsInv'
  OBVIOUS
<1> USE DEF ComponentsInv
<1>1. CASE \E s \in Samples : Admit(s)
  BY <1>1, AdmissionKeepsGroups
<1>2. CASE ~(\E s \in Samples : Admit(s))
  <2>1. madeWith' \in [Samples -> SUBSET Nat]
    <3>1. CASE TransferWeights
      BY <3>1 DEF TransferWeights, SyncWeights, GroupsInv,
                  GroupData, TrainerInv, TrainerData
    <3>2. CASE ~TransferWeights
      <4>1. madeWith' = madeWith
        BY <1>2, <3>2, JobSteps DEF sampleState, TaskGoesOn, TaskEnds, EndIsPut,
           Judge, DispatcherAlone, DispatcherMarks, OutsideJudging, jobVars,
           sampleVars, InitialSynchronisation, OutsideMain, TrainerStep,
           Collect, TrainerConsumes, TrainerAlone, StartSync, SyncVersion,
           OutsideTrainer
      <4> QED
        BY <4>1 DEF GroupsInv, GroupData
    <3> QED
      BY <3>1, <3>2
  <2> QED
    BY <1>2, <2>1, WithoutAdmission DEF GroupsInv, GroupData, OneGroupEach
<1> QED
  BY <1>1, <1>2

LEMMA InitGroups == Init => GroupsInv
BY DEF Init, RollouterInit, CoordinatorInit, GroupsInv, GroupData, OneGroupEach

-----------------------------------------------------------------------------
(* The places of the pipeline, in the order a sample passes them.  The     *)
(* early ones precede mark_reward_done.                                    *)
Early == {"raw", "judge", "scored", "unscored", "publish", "unjudged"}
Stages == Early \union {"queue", "batch", "trained", "givenUp"}

At(p, s) ==
  \/ p = "raw" /\ InSeq(rawQueue, s)
  \/ p = "judge" /\ \E w \in Workers : InSeq(judging[w], s)
  \/ p = "scored" /\ s \in scored
  \/ p = "unscored" /\ s \in unscored
  \/ p = "publish" /\ dispatcher = "publish" /\ payload = s
  \/ p = "queue" /\ InSeq(scoredQueue, s)
  \/ p = "batch" /\ InSeq(batch, s)
  \/ p = "trained" /\ Trained(s)
  \/ p = "givenUp" /\ s \in givenUp
  \/ p = "unjudged" /\ s \in unjudged

Finishing == trainer = "finish" \/ finishing

(* No queue holds a sample twice, and no two judges have the same one.     *)
QueuedOnceEach ==
  /\ Distinct(rawQueue) /\ Distinct(scoredQueue) /\ Distinct(batch)
  /\ \A w \in Workers : Distinct(judging[w])
  /\ \A v, w \in Workers, s \in Samples :
       InSeq(judging[v], s) /\ InSeq(judging[w], s) => v = w

(* A sample is at one stage once its task is done, and at none before.     *)
OneStageEach ==
  /\ \A s \in Samples, p, q \in Stages : At(p, s) /\ At(q, s) => p = q
  /\ \A s \in Samples, p \in Stages : At(p, s) => task[s] = "ok"
  /\ \A s \in Samples : task[s] = "ok" => \E p \in Stages : At(p, s)

(* A sample about to be marked has left the early stages for good.         *)
MarkedIsPast ==
  /\ dispatcher \in {"publish", "mark"} <=> payload # EndMarker
  /\ dispatcher = "mark" =>
       task[payload] = "ok" /\ \A p \in Early : ~At(p, payload)

PlacesInv == QueuedOnceEach /\ OneStageEach /\ MarkedIsPast

(* Sample x moves on to stage q, and no other sample moves. *)
Moves(x, q) ==
  \A p \in Stages, s \in Samples :
    At(p, s)' <=> IF s = x THEN p = q ELSE At(p, s)

NoneMoves == \A p \in Stages, s \in Samples : At(p, s)' <=> At(p, s)

LEMMA MoveKeepsStages ==
  ASSUME OneStageEach, NEW x \in Samples, NEW q \in Stages, Moves(x, q),
         task'[x] = "ok", \A s \in Samples : s # x => task'[s] = task[s]
  PROVE  OneStageEach'
BY DEF OneStageEach, Moves

LEMMA StayKeepsStages ==
  ASSUME OneStageEach, NoneMoves,
         \A s \in Samples : task[s] = "ok" <=> task'[s] = "ok"
  PROVE  OneStageEach'
BY DEF OneStageEach, NoneMoves

(* A whole batch moves on to stage q. *)
LEMMA BatchKeepsStages ==
  ASSUME OneStageEach, NEW q \in Stages, q # "batch", task' = task,
         \A p \in Stages, s \in Samples :
           At(p, s)' <=> (p # "batch" /\ At(p, s)) \/ (p = q /\ At("batch", s))
  PROVE  OneStageEach'
<1>1. "batch" \in Stages
  BY DEF Stages
<1> QED
  BY <1>1 DEF OneStageEach

LEMMA FinishingStays == [Next]_vars => (Finishing => Finishing')
<1> SUFFICES ASSUME [Next]_vars, Finishing PROVE Finishing'
  OBVIOUS
<1> USE DEF Finishing
<1>1. CASE UNCHANGED trainerSide
  BY <1>1 DEF trainerSide, trainerVars
<1>2. CASE InitialSynchronisation \/ MainStep \/ RemoteAlone
  BY <1>2 DEF InitialSynchronisation, InitialSync, MoveTo, MainStep,
     RemoteAlone, trainerVars
<1>3. CASE TrainerStep
  BY <1>3 DEF TrainerStep, Collect, CollectEnd, CollectSample, TrainerConsumes,
     ConsumedNext, TrainerAlone, Train, FinalValidation, FinalWait, StartSync,
     CallPause, SyncVersion, KeepVersion, VersionAdvanced, VersionRefused,
     TransferWeights, SyncWeights, MoveTo
<1> QED
  BY <1>1, <1>2, <1>3, TrainerSteps

(* A step that leaves the stages' variables alone moves nothing.           *)
LEMMA SameStages ==
  ASSUME UNCHANGED <<rawQueue, judging, scored, unscored, unjudged, scoredQueue,
                     batch, trained, givenUp>>,
         \A s \in Samples : dispatcher' = "publish" /\ payload' = s
                            <=> dispatcher = "publish" /\ payload = s
  PROVE  /\ NoneMoves
         /\ QueuedOnceEach => QueuedOnceEach'
BY DEF NoneMoves, At, Trained, QueuedOnceEach

(* The samples a queue gains and loses.                                    *)
LEMMA QueueGains ==
  ASSUME NEW S, NEW q \in Seq(S), NEW x \in S, Distinct(q),
         x = EndMarker \/ ~InSeq(q, x)
  PROVE  /\ Distinct(Append(q, x))
         /\ \A y : InSeq(Append(q, x), y) <=> InSeq(q, y) \/ x = y
BY DistinctAppend, InAppend

LEMMA SampleIsNoMarker == \A s \in Samples : s # EndMarker
BY RollouterAssumption DEF Samples, EndMarker

LEMMA EnqueueKeepsPlaces ==
  ASSUME ComponentsInv, PlacesInv, NEW s \in Samples, TaskEnds(s)
  PROVE  /\ QueuedOnceEach' /\ Moves(s, "raw")
         /\ task'[s] = "ok" /\ \A x \in Samples : x # s => task'[x] = task[x]
<1> USE DEF ComponentsInv, DispatcherData, Items
<1>1. ~InSeq(rawQueue, s) /\ \A p \in Stages : ~At(p, s)
  BY DEF TaskEnds, PlacesInv, OneStageEach, At, Stages, Early
<1>2. /\ Distinct(rawQueue')
      /\ \A y : InSeq(rawQueue', y) <=> InSeq(rawQueue, y) \/ s = y
  BY <1>1, QueueGains DEF TaskEnds, PutRaw, PlacesInv, QueuedOnceEach
<1>3. UNCHANGED <<judging, scored, unscored, unjudged, scoredQueue, batch, trained,
                  givenUp, dispatcher, payload>>
  BY DEF TaskEnds, PutRaw, JudgingOnly, judgeVars, dispatcherVars, trainerVars
<1>4. QueuedOnceEach'
  BY <1>2, <1>3 DEF PlacesInv, QueuedOnceEach
<1>5. Moves(s, "raw")
  BY <1>1, <1>2, <1>3 DEF Moves, At, Trained, Stages, Early
<1> QED
  BY <1>4, <1>5 DEF TaskEnds, RollouterInv, RollouterData

LEMMA EndKeepsPlaces ==
  ASSUME ComponentsInv, PlacesInv, EndIsPut
  PROVE  QueuedOnceEach' /\ NoneMoves
<1> USE DEF ComponentsInv, DispatcherData, Items
<1>1. /\ Distinct(rawQueue')
      /\ \A y : InSeq(rawQueue', y) <=> InSeq(rawQueue, y) \/ EndMarker = y
  BY QueueGains DEF EndIsPut, PutRaw, PlacesInv, QueuedOnceEach
<1>2. UNCHANGED <<judging, scored, unscored, unjudged, scoredQueue, batch, trained,
                  givenUp, dispatcher, payload>>
  BY DEF EndIsPut, PutRaw, JudgingOnly, judgeVars, dispatcherVars, trainerVars
<1>3. QueuedOnceEach'
  BY <1>1, <1>2 DEF PlacesInv, QueuedOnceEach
<1>4. NoneMoves
  BY <1>1, <1>2, SampleIsNoMarker DEF NoneMoves, At, Trained
<1> QED
  BY <1>3, <1>4

LEMMA JudgeKeepsPlaces ==
  ASSUME ComponentsInv, PlacesInv, NEW w \in Workers, Judge(w)
  PROVE  /\ QueuedOnceEach' /\ Head(judging[w]) \in Samples
         /\ At("judge", Head(judging[w]))
         /\ \E q \in {"scored", "unscored"} : Moves(Head(judging[w]), q)
<1> DEFINE x == Head(judging[w])
<1> USE DEF ComponentsInv, DispatcherData
<1>0. judging[w] \in Seq(Samples) /\ judging[w] # <<>>
  BY DEF Judge, JudgeFinishes
<1>1. /\ \A y : y # EndMarker =>
           (InSeq(Tail(judging[w]), y) <=> InSeq(judging[w], y) /\ y # x)
      /\ \A y : InSeq(Tail(judging[w]), y) => InSeq(judging[w], y)
      /\ InSeq(judging[w], x) /\ Distinct(Tail(judging[w]))
  BY <1>0, InTail DEF PlacesInv, QueuedOnceEach
<1>2. x \in Samples
  BY <1>0, HeadTailProperties
<1>3. At("judge", x)
  BY <1>1 DEF At
<1>4. /\ UNCHANGED <<rawQueue, scoredQueue, dispatcher, payload, batch, trained,
                     givenUp, unjudged>>
      /\ judging' = [judging EXCEPT ![w] = Tail(@)]
      /\ \/ scored' = scored \union {x} /\ unscored' = unscored
         \/ unscored' = unscored \union {x} /\ scored' = scored
  BY DEF Judge, JudgeFinishes, OutsideJudging, dispatcherVars, trainerVars
<1> HIDE DEF x
<1>5. \A v \in Workers :
        judging'[v] = IF v = w THEN Tail(judging[w]) ELSE judging[v]
  BY <1>4
<1>6. QueuedOnceEach'
  BY <1>1, <1>4, <1>5 DEF PlacesInv, QueuedOnceEach
<1>7. \A s \in Samples :
        (\E v \in Workers : InSeq(judging'[v], s))
        <=> s # x /\ \E v \in Workers : InSeq(judging[v], s)
  BY <1>1, <1>2, <1>5, SampleIsNoMarker DEF PlacesInv, QueuedOnceEach
<1>8. \A p \in Stages : At(p, x) => p = "judge"
  BY <1>2, <1>3 DEF PlacesInv, OneStageEach, Stages, Early
<1>9. \E q \in {"scored", "unscored"} : Moves(x, q)
  <2>1. CASE scored' = scored \union {x} /\ unscored' = unscored
    <3>1. ASSUME NEW p \in Stages, NEW s \in Samples, s # x
          PROVE  At(p, s)' <=> At(p, s)
      BY ONLY <1>4, <1>7, <3>1, <2>1 DEF At, Trained
    <3>2. ASSUME NEW p \in Stages, NEW s \in Samples, s = x
          PROVE  At(p, s)' <=> p = "scored"
      <4>1. At(p, s) => p = "judge"
        BY <1>8, <3>2
      <4>2. At("scored", s)'
        BY ONLY <3>2, <2>1 DEF At
      <4>3. At(p, s)' => p = "scored" \/ (At(p, s) /\ p # "judge")
        BY ONLY <1>4, <1>7, <3>2, <2>1 DEF At, Trained
      <4> QED
        BY <4>1, <4>2, <4>3
    <3> QED
      BY <3>1, <3>2 DEF Moves
  <2>2. CASE unscored' = unscored \union {x} /\ scored' = scored
    <3>1. ASSUME NEW p \in Stages, NEW s \in Samples, s # x
          PROVE  At(p, s)' <=> At(p, s)
      BY ONLY <1>4, <1>7, <3>1, <2>2 DEF At, Trained
    <3>2. ASSUME NEW p \in Stages, NEW s \in Samples, s = x
          PROVE  At(p, s)' <=> p = "unscored"
      <4>1. At(p, s) => p = "judge"
        BY <1>8, <3>2
      <4>2. At("unscored", s)'
        BY ONLY <3>2, <2>2 DEF At
      <4>3. At(p, s)' => p = "unscored" \/ (At(p, s) /\ p # "judge")
        BY ONLY <1>4, <1>7, <3>2, <2>2 DEF At, Trained
      <4> QED
        BY <4>1, <4>2, <4>3
    <3> QED
      BY <3>1, <3>2 DEF Moves
  <2> QED
    BY <1>4, <2>1, <2>2
<1> QED
  BY <1>2, <1>3, <1>6, <1>9 DEF x

LEMMA PullKeepsPlaces ==
  ASSUME ComponentsInv, PlacesInv, Pull, UNCHANGED trainerVars
  PROVE  /\ QueuedOnceEach'
         /\ \/ NoneMoves
            \/ /\ Head(rawQueue) \in Samples /\ Moves(Head(rawQueue), "judge")
               /\ At("raw", Head(rawQueue))
<1> DEFINE x == Head(rawQueue)
<1> USE DEF ComponentsInv, DispatcherData
<1>1. /\ \A y : y # EndMarker =>
           (InSeq(Tail(rawQueue), y) <=> InSeq(rawQueue, y) /\ y # x)
      /\ InSeq(rawQueue, x) /\ Distinct(Tail(rawQueue))
  BY InTail DEF PlacesInv, QueuedOnceEach, Pull
<1>2. x \in Items
  BY HeadTailProperties DEF Pull
<1>3. /\ UNCHANGED <<scoredQueue, dispatcher, payload, batch, trained, givenUp,
                     scored, unscored, unjudged>>
      /\ rawQueue' = Tail(rawQueue)
      /\ \/ x = EndMarker /\ judging' = judging
         \/ /\ x # EndMarker
            /\ judging' = [judging EXCEPT ![workerIndex] = Append(@, x)]
  BY DEF Pull, trainerVars
<1> HIDE DEF x
<1>4. CASE x = EndMarker
  <2>1. QueuedOnceEach'
    BY <1>1, <1>3, <1>4 DEF PlacesInv, QueuedOnceEach
  <2>2. NoneMoves
    BY <1>1, <1>3, <1>4, SampleIsNoMarker DEF NoneMoves, At, Trained
  <2> QED
    BY <2>1, <2>2
<1>5. CASE x # EndMarker
  <2>0. x \in Samples /\ At("raw", x) /\ \A p \in Stages : At(p, x) => p = "raw"
    BY <1>1, <1>2, <1>5 DEF PlacesInv, OneStageEach, At, Stages, Early, Items
  <2>1. \A v \in Workers : ~InSeq(judging[v], x)
    BY <2>0 DEF At, Stages, Early
  <2>2. workerIndex \in Workers /\ judging[workerIndex] \in Seq(Samples)
    BY DEF DispatcherTypeOK
  <2>3. /\ Distinct(Append(judging[workerIndex], x))
        /\ \A y : InSeq(Append(judging[workerIndex], x), y)
                  <=> InSeq(judging[workerIndex], y) \/ x = y
    BY <2>0, <2>1, <2>2, QueueGains DEF PlacesInv, QueuedOnceEach
  <2>4. \A v \in Workers :
          judging'[v] = IF v = workerIndex THEN Append(judging[workerIndex], x)
                                           ELSE judging[v]
    BY <1>3, <1>5
  <2>5. QueuedOnceEach'
    <3>1. \A v \in Workers : Distinct(judging'[v])
      BY <2>3, <2>4 DEF PlacesInv, QueuedOnceEach
    <3>2. \A v, w \in Workers, s \in Samples :
            InSeq(judging'[v], s) /\ InSeq(judging'[w], s) => v = w
      BY <2>1, <2>3, <2>4 DEF PlacesInv, QueuedOnceEach
    <3> QED
      BY <1>1, <1>3, <3>1, <3>2 DEF PlacesInv, QueuedOnceEach
  <2>6. \A s \in Samples :
          (\E v \in Workers : InSeq(judging'[v], s))
          <=> s = x \/ \E v \in Workers : InSeq(judging[v], s)
    BY <2>2, <2>3, <2>4
  <2>7. Moves(x, "judge")
    <3>1. \A s \in Samples : At("raw", s)' <=> At("raw", s) /\ s # x
      BY <1>1, <1>3, SampleIsNoMarker DEF At
    <3>2. \A s \in Samples : At("judge", s)' <=> s = x \/ At("judge", s)
      BY <2>6 DEF At
    <3>3. \A p \in Stages \ {"raw", "judge"}, s \in Samples : At(p, s)' <=> At(p, s)
      BY <1>3 DEF At, Trained, Stages, Early
    <3> QED
      BY <2>0, <3>1, <3>2, <3>3 DEF Moves
  <2> QED
    BY <2>0, <2>5, <2>7 DEF x
<1> QED
  BY <1>4, <1>5

LEMMA ReapKeepsPlaces ==
  ASSUME ComponentsInv, PlacesInv, NEW s \in Samples, ReapScore(s),
         UNCHANGED trainerVars
  PROVE  /\ QueuedOnceEach'
         /\ \/ /\ Moves(s, "publish") /\ At("scored", s)
               /\ dispatcher' = "publish" /\ payload' = s
            \/ /\ Moves(s, "unjudged") /\ At("unscored", s)
               /\ dispatcher = "reap" /\ dispatcher' \notin {"publish", "mark"}
               /\ payload' = payload
<1>1. /\ UNCHANGED <<rawQueue, scoredQueue, judging, batch, trained, givenUp>>
      /\ dispatcher = "reap"
  BY DEF ReapScore, trainerVars
<1>2. QueuedOnceEach'
  BY <1>1 DEF PlacesInv, QueuedOnceEach
<1>3. CASE s \in scored /\ dispatcher' = "publish" /\ payload' = s
           /\ scored' = scored \ {s} /\ UNCHANGED <<unscored, unjudged>>
  <2>1. At("scored", s) /\ \A p \in Stages : At(p, s) => p = "scored"
    BY <1>3 DEF PlacesInv, OneStageEach, At, Stages, Early
  <2>2. Moves(s, "publish")
    BY <1>1, <1>3, <2>1 DEF Moves, At, Trained, Stages, Early
  <2> QED
    BY <1>2, <1>3, <2>1, <2>2
<1>4. CASE s \in unscored /\ dispatcher' = AfterError /\ payload' = payload
           /\ unscored' = unscored \ {s} /\ scored' = scored
           /\ unjudged' = unjudged \union {s}
  <2>1. At("unscored", s) /\ \A p \in Stages : At(p, s) => p = "unscored"
    BY <1>4 DEF PlacesInv, OneStageEach, At, Stages, Early
  <2>2. dispatcher' \notin {"publish", "mark"}
    BY <1>4 DEF AfterError
  <2>3. Moves(s, "unjudged")
    BY <1>1, <1>4, <2>1, <2>2 DEF Moves, At, Trained, Stages, Early
  <2> QED
    BY <1>1, <1>2, <1>4, <2>1, <2>2, <2>3
<1> QED
  BY <1>3, <1>4 DEF ReapScore, Without

LEMMA PublishKeepsPlaces ==
  ASSUME ComponentsInv, PlacesInv, Publish, UNCHANGED trainerVars
  PROVE  /\ QueuedOnceEach' /\ payload \in Samples
         /\ Moves(payload, "queue") /\ At("publish", payload)
<1> USE DEF ComponentsInv, DispatcherData, Items
<1>1. /\ payload \in Samples /\ At("publish", payload)
      /\ \A p \in Stages : At(p, payload) => p = "publish"
  BY DEF Publish, PlacesInv, MarkedIsPast, OneStageEach, At, Stages, Early
<1>2. scoredQueue' = Append(scoredQueue, payload)
  BY DEF Publish, HasRoom, PutNowait
<1>3. /\ Distinct(scoredQueue')
      /\ \A y : InSeq(scoredQueue', y) <=> InSeq(scoredQueue, y) \/ payload = y
  BY <1>1, <1>2, QueueGains DEF PlacesInv, QueuedOnceEach, At, Stages, Early
<1>4. UNCHANGED <<rawQueue, judging, scored, unscored, unjudged, batch, trained,
                  givenUp, payload>>
      /\ dispatcher = "publish" /\ dispatcher' = "mark"
  BY DEF Publish, judgeVars, trainerVars
<1>5. QueuedOnceEach'
  BY <1>3, <1>4 DEF PlacesInv, QueuedOnceEach
<1>6. Moves(payload, "queue")
  BY <1>1, <1>3, <1>4 DEF Moves, At, Trained, Stages, Early
<1> QED
  BY <1>1, <1>5, <1>6

LEMMA PublishEndKeepsPlaces ==
  ASSUME ComponentsInv, PlacesInv, PublishEnd, UNCHANGED trainerVars
  PROVE  QueuedOnceEach' /\ NoneMoves
<1> USE DEF ComponentsInv, DispatcherData, Items
<1>1. scoredQueue' = Append(scoredQueue, EndMarker)
  BY DEF PublishEnd, HasRoom, PutNowait
<1>2. /\ Distinct(scoredQueue')
      /\ \A y : InSeq(scoredQueue', y) <=> InSeq(scoredQueue, y) \/ EndMarker = y
  BY <1>1, QueueGains DEF PlacesInv, QueuedOnceEach
<1>3. UNCHANGED <<rawQueue, judging, scored, unscored, unjudged, batch, trained,
                  givenUp, payload>>
      /\ dispatcher # "publish" /\ dispatcher' # "publish"
  BY DEF PublishEnd, judgeVars, trainerVars
<1>4. QueuedOnceEach'
  BY <1>2, <1>3 DEF PlacesInv, QueuedOnceEach
<1>5. NoneMoves
  BY <1>2, <1>3, SampleIsNoMarker DEF NoneMoves, At, Trained
<1> QED
  BY <1>4, <1>5

LEMMA CollectKeepsPlaces ==
  ASSUME ComponentsInv, PlacesInv, Collect
  PROVE  /\ QueuedOnceEach'
         /\ \/ /\ CollectSample(Head(scoredQueue))
               /\ Head(scoredQueue) \in Samples
               /\ Moves(Head(scoredQueue), "batch")
               /\ At("queue", Head(scoredQueue))
            \/ /\ CollectEnd
               /\ \A p \in Stages, s \in Samples :
                    At(p, s)' <=> \/ p # "batch" /\ At(p, s)
                                  \/ p = "givenUp" /\ At("batch", s)
<1> DEFINE x == Head(scoredQueue)
<1> USE DEF ComponentsInv, DispatcherData
<1>1. /\ \A y : y # EndMarker =>
           (InSeq(Tail(scoredQueue), y) <=> InSeq(scoredQueue, y) /\ y # x)
      /\ InSeq(scoredQueue, x) /\ Distinct(Tail(scoredQueue))
  BY InTail DEF PlacesInv, QueuedOnceEach, Collect
<1>2. x \in Items
  BY HeadTailProperties DEF Collect
<1>3. /\ UNCHANGED <<rawQueue, judging, dispatcher, payload, scored, unscored,
                     unjudged>>
      /\ scoredQueue' = Tail(scoredQueue)
      /\ \/ x = EndMarker /\ CollectEnd
         \/ x # EndMarker /\ CollectSample(x)
  <2>1. UNCHANGED <<rawQueue, judgeVars, dispatcherVars>>
    BY DEF Collect, OutsideTrainer
  <2> QED
    BY <2>1 DEF Collect, judgeVars, dispatcherVars
<1> HIDE DEF x
<1>4. CASE x = EndMarker
  <2>1. /\ CollectEnd /\ batch' = <<>> /\ trained' = trained
        /\ \A s \in Samples : s \in givenUp' <=> s \in givenUp \/ InSeq(batch, s)
    BY <1>3, <1>4 DEF CollectEnd, InSeq
  <2>2. DOMAIN <<>> = {}
    OBVIOUS
  <2>3. \A y : ~InSeq(batch', y)
    BY <2>1, <2>2 DEF InSeq
  <2>4. QueuedOnceEach'
    BY <1>1, <1>3, <2>1, <2>2 DEF PlacesInv, QueuedOnceEach, Distinct
  <2>5. \A p \in Stages, s \in Samples :
          At(p, s)' <=> \/ p # "batch" /\ At(p, s)
                        \/ p = "givenUp" /\ At("batch", s)
    BY <1>1, <1>3, <1>4, <2>1, <2>3, SampleIsNoMarker
       DEF At, Trained, Stages, Early
  <2> QED
    BY <2>1, <2>4, <2>5
<1>5. CASE x # EndMarker
  <2>1. /\ x \in Samples /\ At("queue", x)
        /\ \A p \in Stages : At(p, x) => p = "queue"
    BY <1>1, <1>2, <1>5 DEF PlacesInv, OneStageEach, At, Stages, Early, Items
  <2>2. /\ CollectSample(x) /\ batch' = Append(batch, x)
        /\ UNCHANGED <<trained, givenUp>>
    BY <1>3, <1>5 DEF CollectSample
  <2>3. ~InSeq(batch, x) /\ batch \in Seq(Samples)
    BY <2>1 DEF At, Stages, Early, TrainerInv, TrainerData
  <2>4. /\ Distinct(batch')
        /\ \A y : InSeq(batch', y) <=> InSeq(batch, y) \/ x = y
    BY <2>1, <2>2, <2>3, QueueGains DEF PlacesInv, QueuedOnceEach
  <2>5. QueuedOnceEach'
    BY <1>1, <1>3, <2>4 DEF PlacesInv, QueuedOnceEach
  <2>6. Moves(x, "batch")
    BY <1>1, <1>3, <2>1, <2>2, <2>4, SampleIsNoMarker
       DEF Moves, At, Trained, Stages, Early
  <2> QED
    BY <2>1, <2>2, <2>5, <2>6 DEF x
<1> QED
  BY <1>4, <1>5

LEMMA TrainedGrows ==
  ASSUME Train
  PROVE  \A s : Trained(s)' <=> Trained(s) \/ InSeq(batch, s)
<1>1. trained' =
        trained \union {<<batch[i], trainerVersion>> : i \in DOMAIN batch}
  BY DEF Train
<1>2. ASSUME NEW s, InSeq(batch, s)  PROVE Trained(s)'
  <2>1. PICK i \in DOMAIN batch : batch[i] = s
    BY <1>2 DEF InSeq
  <2>2. <<batch[i], trainerVersion>> \in trained'
    BY <1>1
  <2> QED
    BY <2>1, <2>2 DEF Trained
<1>3. ASSUME NEW s, Trained(s)'  PROVE Trained(s) \/ InSeq(batch, s)
  <2>1. PICK e \in trained' : e[1] = s
    BY <1>3 DEF Trained
  <2>2. CASE e \in trained
    BY <2>1, <2>2 DEF Trained
  <2>3. CASE e \notin trained
    <3>1. PICK i \in DOMAIN batch : e = <<batch[i], trainerVersion>>
      BY <1>1, <2>1, <2>3
    <3>2. batch[i] = s
      BY <2>1, <3>1
    <3> QED
      BY <3>2 DEF InSeq
  <2> QED
    BY <2>2, <2>3
<1>4. \A s : Trained(s) => Trained(s)'
  BY <1>1 DEF Trained
<1> QED
  BY <1>2, <1>3, <1>4

LEMMA TrainKeepsPlaces ==
  ASSUME ComponentsInv, PlacesInv, Train,
         UNCHANGED <<rawQueue, scoredQueue, judgeVars, dispatcherVars>>
  PROVE  /\ QueuedOnceEach'
         /\ \A p \in Stages, s \in Samples :
              At(p, s)' <=> \/ p # "batch" /\ At(p, s)
                            \/ p = "trained" /\ At("batch", s)
<1>1. /\ UNCHANGED <<rawQueue, scoredQueue, judging, scored, unscored, unjudged,
                     dispatcher, payload, givenUp>>
      /\ batch' = <<>>
  BY DEF Train, judgeVars, dispatcherVars
<1>2. DOMAIN <<>> = {}
  OBVIOUS
<1>3. \A y : ~InSeq(batch', y)
  BY <1>1, <1>2 DEF InSeq
<1>4. \A s : Trained(s)' <=> Trained(s) \/ InSeq(batch, s)
  BY TrainedGrows
<1>5. QueuedOnceEach'
  BY <1>1, <1>2 DEF PlacesInv, QueuedOnceEach, Distinct
<1>6. \A p \in Stages, s \in Samples :
        At(p, s)' <=> \/ p # "batch" /\ At(p, s)
                      \/ p = "trained" /\ At("batch", s)
  BY <1>1, <1>3, <1>4 DEF At, Stages, Early
<1> QED
  BY <1>5, <1>6

LEMMA TrainerPlaces ==
  ASSUME TrainerStep
  PROVE  /\ task' = task
         /\ UNCHANGED <<judgeVars, dispatcherVars>>
         /\ \/ Collect
            \/ Train /\ UNCHANGED queues
            \/ UNCHANGED <<queues, batch, trained, givenUp>>
<1> USE DEF OutsideTrainer, rollouterVars, sampleTasks, queues
<1>1. CASE Collect \/ TrainerConsumes
  BY <1>1 DEF Collect, TrainerConsumes, ConsumedNext
<1>2. CASE TrainerAlone
  BY <1>2 DEF TrainerAlone, FinalValidation, FinalWait, MoveTo
<1>3. CASE StartSync \/ SyncVersion \/ TransferWeights
  BY <1>3 DEF StartSync, CallPause, CallRemote, SyncVersion, KeepVersion,
     VersionAdvanced, VersionRefused, TransferWeights, SyncWeights, MoveTo
<1> QED
  BY <1>1, <1>2, <1>3 DEF TrainerStep

(* A step that hands sample x on keeps the sample about to be marked past  *)
(* the early stages, as x does not go back to them.                        *)
LEMMA MoveKeepsMarked ==
  ASSUME MarkedIsPast, NEW x \in Samples, NEW q \in Stages, Moves(x, q),
         payload \in Samples \/ dispatcher # "mark",
         task'[x] = "ok", \A s \in Samples : s # x => task'[s] = task[s],
         UNCHANGED <<dispatcher, payload>>,
         q \in Early => task[x] # "ok" \/ \E p \in Early : At(p, x)
  PROVE  MarkedIsPast'
<1>1. Early \subseteq Stages
  BY DEF Stages
<1> QED
  BY <1>1 DEF MarkedIsPast, Moves

LEMMA StayKeepsMarked ==
  ASSUME MarkedIsPast, payload \in Samples \/ dispatcher # "mark",
         \A p \in Stages, s \in Samples : At(p, s)' => At(p, s) \/ p \notin Early,
         \A s \in Samples : task[s] = "ok" => task'[s] = "ok",
         \/ UNCHANGED <<dispatcher, payload>>
         \/ payload' = payload /\ {dispatcher, dispatcher'} \intersect
                                  {"publish", "mark"} = {}
  PROVE  MarkedIsPast'
<1>1. Early \subseteq Stages
  BY DEF Stages
<1> QED
  BY <1>1 DEF MarkedIsPast

LEMMA PayloadIsSample ==
  ASSUME ComponentsInv, PlacesInv
  PROVE  payload \in Samples \/ dispatcher # "mark"
BY DEF ComponentsInv, DispatcherData, Items, PlacesInv, MarkedIsPast

LEMMA DispatcherKeepsPlaces ==
  ASSUME ComponentsInv, PlacesInv, DispatcherAlone
  PROVE  PlacesInv'
<1> USE DEF PlacesInv
<1>0. UNCHANGED <<task, trainerVars>>
      /\ (payload \in Samples \/ dispatcher # "mark")
  BY PayloadIsSample
     DEF DispatcherAlone, OutsideJudging, rollouterVars, sampleTasks
<1>1. CASE Pull
  <2>1. UNCHANGED <<dispatcher, payload>>
    BY <1>1 DEF Pull
  <2>2. CASE NoneMoves
    BY <1>0, <1>1, <2>1, <2>2, PullKeepsPlaces, StayKeepsStages,
       StayKeepsMarked DEF NoneMoves
  <2>3. CASE /\ Head(rawQueue) \in Samples /\ Moves(Head(rawQueue), "judge")
             /\ At("raw", Head(rawQueue))
    <3>1. "judge" \in Stages /\ "raw" \in Stages /\ "raw" \in Early
      BY DEF Stages, Early
    <3>2. task'[Head(rawQueue)] = "ok"
      BY <1>0, <2>3, <3>1 DEF OneStageEach
    <3> QED
      BY <1>0, <1>1, <2>1, <2>3, <3>1, <3>2, PullKeepsPlaces, MoveKeepsStages,
         MoveKeepsMarked
  <2> QED
    BY <1>0, <1>1, <2>2, <2>3, PullKeepsPlaces
<1>2. CASE PullNothing \/ ReapNothing
  <2>1. NoneMoves /\ QueuedOnceEach'
    BY <1>0, <1>2, SameStages
       DEF PullNothing, ReapNothing, judgeVars, trainerVars
  <2>2. payload' = payload
        /\ {dispatcher, dispatcher'} \intersect {"publish", "mark"} = {}
    BY <1>2 DEF PullNothing, ReapNothing, judgeVars
  <2> QED
    BY <1>0, <2>1, <2>2, StayKeepsStages, StayKeepsMarked DEF NoneMoves
<1>3. ASSUME NEW s \in Samples, ReapScore(s)  PROVE PlacesInv'
  <2>1. CASE /\ Moves(s, "publish") /\ At("scored", s)
             /\ dispatcher' = "publish" /\ payload' = s
    <3>1. "publish" \in Stages /\ "scored" \in Stages
      BY DEF Stages, Early
    <3>2. task'[s] = "ok" /\ s # EndMarker
      BY <1>0, <2>1, <3>1, SampleIsNoMarker DEF OneStageEach
    <3>3. MarkedIsPast'
      BY <2>1, <3>2 DEF MarkedIsPast
    <3> QED
      BY <1>0, <1>3, <2>1, <3>1, <3>2, <3>3, ReapKeepsPlaces, MoveKeepsStages
  <2>2. CASE /\ Moves(s, "unjudged") /\ At("unscored", s)
             /\ dispatcher = "reap" /\ dispatcher' \notin {"publish", "mark"}
             /\ payload' = payload
    <3>1. "unjudged" \in Stages /\ "unscored" \in Stages
      BY DEF Stages, Early
    <3>2. task'[s] = "ok"
      BY <1>0, <2>2, <3>1 DEF OneStageEach
    <3>3. MarkedIsPast'
      BY <2>2 DEF MarkedIsPast
    <3> QED
      BY <1>0, <1>3, <2>2, <3>1, <3>2, <3>3, ReapKeepsPlaces, MoveKeepsStages
  <2> QED
    BY <1>0, <1>3, <2>1, <2>2, ReapKeepsPlaces
<1>4. CASE Publish
  <2>1. "publish" \in Stages /\ "queue" \in Stages /\ "queue" \notin Early
        /\ Early \subseteq Stages
    BY DEF Stages, Early
  <2>2. task'[payload] = "ok"
    BY <1>0, <1>4, <2>1, PublishKeepsPlaces DEF OneStageEach
  <2>3. payload' = payload
        /\ dispatcher = "publish" /\ dispatcher' = "mark"
    BY <1>4 DEF Publish, judgeVars
  <2>4. MarkedIsPast'
    BY <1>0, <1>4, <2>1, <2>2, <2>3, PublishKeepsPlaces DEF MarkedIsPast, Moves
  <2> QED
    BY <1>0, <1>4, <2>1, <2>2, <2>4, PublishKeepsPlaces, MoveKeepsStages
<1>5. CASE PublishEnd
  <2>1. payload' = payload
        /\ {dispatcher, dispatcher'} \intersect {"publish", "mark"} = {}
    BY <1>5 DEF PublishEnd, judgeVars
  <2> QED
    BY <1>0, <1>5, <2>1, PublishEndKeepsPlaces, StayKeepsStages,
       StayKeepsMarked DEF NoneMoves
<1> QED
  BY <1>1, <1>2, <1>3, <1>4, <1>5 DEF DispatcherAlone

LEMMA StepKeepsPlaces ==
  ComponentsInv /\ PlacesInv /\ [Next]_vars => PlacesInv'
<1> SUFFICES ASSUME ComponentsInv, PlacesInv, [Next]_vars PROVE PlacesInv'
  OBVIOUS
<1>0. RollouterInv /\ (payload \in Samples \/ dispatcher # "mark")
  BY PayloadIsSample DEF ComponentsInv
<1> USE DEF PlacesInv
<1>1. CASE UNCHANGED sampleState
  <2>1. NoneMoves /\ QueuedOnceEach'
    BY <1>1, SameStages DEF sampleState, pipelineVars, queues, judgeVars,
       dispatcherVars, trainerVars
  <2> QED
    BY <1>0, <1>1, <2>1, StayKeepsStages, StayKeepsMarked DEF sampleState,
       pipelineVars, queues, judgeVars, dispatcherVars, NoneMoves
<1>2. ASSUME NEW s \in Samples, TaskGoesOn(s) \/ Admit(s)  PROVE PlacesInv'
  <2>1. UNCHANGED <<rawQueue, judging, scored, unscored, unjudged, scoredQueue,
                    batch, trained, givenUp, dispatcher, payload>>
    BY <1>2 DEF TaskGoesOn, Admit, OutsideTasks, pipelineVars, queues, judgeVars,
                dispatcherVars, trainerVars
  <2>2. \A x \in Samples : task[x] = "ok" <=> task'[x] = "ok"
    BY <1>0, <1>2 DEF TaskGoesOn, Admit, TaskAdmitted, TaskStep, RollouterInv,
                      RollouterData
  <2>3. NoneMoves /\ QueuedOnceEach'
    BY <2>1, SameStages
  <2> QED
    BY <1>0, <2>1, <2>2, <2>3, StayKeepsStages, StayKeepsMarked DEF NoneMoves
<1>3. ASSUME NEW s \in Samples, TaskEnds(s)  PROVE PlacesInv'
  <2>1. UNCHANGED <<dispatcher, payload>> /\ task[s] # "ok"
    BY <1>3 DEF TaskEnds, PutRaw, JudgingOnly, judgeVars, dispatcherVars
  <2>2. "raw" \in Stages
    BY DEF Stages, Early
  <2> QED
    BY <1>0, <1>3, <2>1, <2>2, EnqueueKeepsPlaces, MoveKeepsStages,
       MoveKeepsMarked
<1>4. CASE EndIsPut
  <2>1. UNCHANGED <<task, dispatcher, payload>>
    BY <1>4 DEF EndIsPut, PutRaw, JudgingOnly, judgeVars, dispatcherVars
  <2> QED
    BY <1>0, <1>4, <2>1, EndKeepsPlaces, StayKeepsStages, StayKeepsMarked
       DEF NoneMoves
<1>5. ASSUME NEW w \in Workers, Judge(w)  PROVE PlacesInv'
  <2> DEFINE x == Head(judging[w])
  <2>1. UNCHANGED <<task, dispatcher, payload>>
    BY <1>5 DEF Judge, JudgeFinishes, OutsideJudging, dispatcherVars,
                rollouterVars, sampleTasks
  <2>2. /\ "judge" \in Stages /\ "scored" \in Stages /\ "unscored" \in Stages
        /\ "judge" \in Early
    BY DEF Stages, Early
  <2>3. /\ QueuedOnceEach' /\ x \in Samples /\ At("judge", x)
        /\ \E q \in {"scored", "unscored"} : Moves(x, q)
    BY <1>5, JudgeKeepsPlaces
  <2> HIDE DEF x
  <2>4. task'[x] = "ok"
    BY <2>1, <2>2, <2>3 DEF OneStageEach
  <2> QED
    BY <1>0, <2>1, <2>2, <2>3, <2>4, MoveKeepsStages, MoveKeepsMarked
<1>6. CASE DispatcherAlone
  BY <1>0, <1>6, DispatcherKeepsPlaces
<1>7. CASE DispatcherMarks
  <2>1. /\ UNCHANGED <<rawQueue, judging, scored, unscored, unjudged,
                       scoredQueue, batch, trained, givenUp, task>>
        /\ dispatcher = "mark" /\ dispatcher' \in {"pull", "endRaising"}
        /\ payload' = EndMarker
    BY <1>7 DEF DispatcherMarks, Marked, AfterError, OutsideJudging, judgeVars,
                trainerVars, rollouterVars, sampleTasks
  <2>2. NoneMoves /\ QueuedOnceEach'
    BY <2>1, SameStages
  <2>3. MarkedIsPast'
    BY <2>1 DEF MarkedIsPast
  <2> QED
    BY <1>0, <2>1, <2>2, <2>3, StayKeepsStages
<1>8. CASE TrainerStep
  <2>0. UNCHANGED <<task, dispatcher, payload>>
    BY <1>8, TrainerPlaces DEF judgeVars, dispatcherVars
  <2>1. CASE Collect
    <3>1. CASE /\ CollectEnd
               /\ \A p \in Stages, s \in Samples :
                    At(p, s)' <=> \/ p # "batch" /\ At(p, s)
                                  \/ p = "givenUp" /\ At("batch", s)
      <4>1. "givenUp" \in Stages /\ "givenUp" \notin Early
        BY DEF Stages, Early
      <4>2. OneStageEach'
        BY <2>0, <3>1, <4>1, BatchKeepsStages
      <4>3. MarkedIsPast'
        BY <1>0, <2>0, <3>1, <4>1, StayKeepsMarked
      <4> QED
        BY <2>1, <4>2, <4>3, CollectKeepsPlaces
    <3>2. CASE /\ Head(scoredQueue) \in Samples
               /\ Moves(Head(scoredQueue), "batch")
               /\ At("queue", Head(scoredQueue))
      <4>1. "queue" \in Stages /\ "batch" \in Stages /\ "batch" \notin Early
        BY DEF Stages, Early
      <4>2. task'[Head(scoredQueue)] = "ok"
        BY <2>0, <3>2, <4>1 DEF OneStageEach
      <4> QED
        BY <1>0, <2>0, <2>1, <3>2, <4>1, <4>2, CollectKeepsPlaces,
           MoveKeepsStages, MoveKeepsMarked
    <3> QED
      BY <2>1, <3>1, <3>2, CollectKeepsPlaces
  <2>2. CASE Train /\ UNCHANGED queues
    <3>1. /\ QueuedOnceEach'
          /\ \A p \in Stages, s \in Samples :
               At(p, s)' <=> \/ p # "batch" /\ At(p, s)
                             \/ p = "trained" /\ At("batch", s)
      BY <1>8, <2>2, TrainKeepsPlaces, TrainerPlaces DEF queues
    <3>2. "trained" \in Stages /\ "trained" \notin Early
      BY DEF Stages, Early
    <3>3. OneStageEach'
      BY <2>0, <3>1, <3>2, BatchKeepsStages
    <3> QED
      BY <1>0, <2>0, <3>1, <3>2, <3>3, StayKeepsMarked
  <2>3. CASE UNCHANGED <<queues, batch, trained, givenUp>>
    <3>1. NoneMoves /\ QueuedOnceEach'
      BY <1>8, <2>3, TrainerPlaces, SameStages
         DEF queues, judgeVars, dispatcherVars
    <3> QED
      BY <1>0, <2>0, <3>1, StayKeepsStages, StayKeepsMarked DEF NoneMoves
  <2> QED
    BY <1>8, <2>1, <2>2, <2>3, TrainerPlaces
<1>9. CASE InitialSynchronisation
  <2>1. UNCHANGED <<rawQueue, judging, scored, unscored, unjudged, scoredQueue,
                    batch, trained, givenUp, dispatcher, payload, task>>
    BY <1>9 DEF InitialSynchronisation, InitialSync, MoveTo, OutsideMain, queues,
       judgeVars, dispatcherVars, rollouterVars, sampleTasks
  <2>2. NoneMoves /\ QueuedOnceEach'
    BY <2>1, SameStages
  <2> QED
    BY <1>0, <2>1, <2>2, StayKeepsStages, StayKeepsMarked DEF NoneMoves
<1> QED
  BY <1>0, <1>1, <1>2, <1>3, <1>4, <1>5, <1>6, <1>7, <1>8, <1>9, JobSteps

LEMMA InitPlaces == Init => PlacesInv
<1> SUFFICES ASSUME Init PROVE PlacesInv
  OBVIOUS
<1>1. /\ \A w \in Workers : judging[w] = <<>>
      /\ rawQueue = <<>> /\ scoredQueue = <<>> /\ batch = <<>>
      /\ scored = {} /\ unscored = {} /\ unjudged = {} /\ trained = {}
      /\ givenUp = {} /\ payload = EndMarker /\ dispatcher = "pull"
      /\ \A s \in Samples : task[s] = "none"
  BY DEF Init, DispatcherInit, TrainerInit, RollouterInit
<1>2. DOMAIN <<>> = {}
  OBVIOUS
<1>3. \A x : ~InSeq(<<>>, x)
  BY <1>2 DEF InSeq
<1>4. \A p \in Stages, s \in Samples : ~At(p, s)
  BY <1>1, <1>3 DEF At, Trained
<1>5. QueuedOnceEach
  BY <1>1, <1>2, <1>3 DEF QueuedOnceEach, Distinct
<1>6. OneStageEach /\ MarkedIsPast
  BY <1>1, <1>4 DEF OneStageEach, MarkedIsPast
<1> QED
  BY <1>5, <1>6 DEF PlacesInv

(* The places HandedOverOnce speaks of are the stages, but that a reference *)
(* whose judgement failed counts with the judges'.                          *)
PlaceStage(p, s) ==
  CASE p = "judge" -> IF At("judge", s) THEN "judge" ELSE "unscored"
    [] p = "dispatcher" -> "publish"
    [] p \notin {"judge", "dispatcher"} -> p

PlaceNames == {"raw", "judge", "scored", "dispatcher", "queue", "batch",
               "trained", "givenUp", "unjudged"}

LEMMA PlacesAreStages ==
  ASSUME NEW s \in Samples, PlacesInv
  PROVE  /\ \A p \in Places(s) :
              /\ p \in PlaceNames
              /\ PlaceStage(p, s) \in Stages
              /\ At(PlaceStage(p, s), s)
         /\ \A q \in Stages : At(q, s) => Places(s) # {}
<1>1. s \in Pending \ scored => At("judge", s) \/ At("unscored", s)
  BY DEF Pending, At, InSeq
<1>2. At("judge", s) \/ At("unscored", s) => s \in Pending
  BY DEF Pending, At, InSeq
<1>3. s \in scored => ~At("judge", s) /\ ~At("unscored", s)
  BY DEF PlacesInv, OneStageEach, At, Stages, Early
<1>4. \A p \in Places(s) : /\ p \in PlaceNames
                           /\ PlaceStage(p, s) \in Stages
                           /\ At(PlaceStage(p, s), s)
  <2> SUFFICES ASSUME NEW p \in Places(s)
               PROVE  /\ p \in PlaceNames
                      /\ PlaceStage(p, s) \in Stages
                      /\ At(PlaceStage(p, s), s)
    OBVIOUS
  <2>1. CASE p = "judge"
    BY <1>1, <2>1 DEF Places, PlaceStage, Stages, Early, PlaceNames
  <2>2. CASE p \in {"raw", "queue", "batch"}
    BY <2>2 DEF Places, PlaceStage, Stages, Early, At, InSeq, PlaceNames
  <2>3. CASE p \in {"scored", "dispatcher", "trained", "givenUp", "unjudged"}
    BY <2>3 DEF Places, PlaceStage, Stages, Early, At, PlaceNames
  <2> QED
    BY <2>1, <2>2, <2>3 DEF Places
<1>5. ASSUME NEW q \in Stages, At(q, s)  PROVE Places(s) # {}
  <2>1. CASE q \in {"judge", "unscored"}
    <3>1. "judge" \in Places(s)
      BY <1>2, <1>3, <1>5, <2>1 DEF Places
    <3> QED
      BY <3>1
  <2>2. CASE q \in {"raw", "queue", "batch", "scored", "trained", "givenUp",
                    "unjudged"}
    <3>1. q \in Places(s)
      BY <1>5, <2>2 DEF Places, At, InSeq
    <3> QED
      BY <3>1
  <2>3. CASE q = "publish"
    <3>1. "dispatcher" \in Places(s)
      BY <1>5, <2>3 DEF Places, At
    <3> QED
      BY <3>1
  <2> QED
    BY <2>1, <2>2, <2>3 DEF Stages, Early
<1> QED
  BY <1>4, <1>5

LEMMA PlacesImplyHandedOver == PlacesInv => HandedOverOnce
<1> SUFFICES ASSUME PlacesInv, NEW s \in Samples
             PROVE  Cardinality(Places(s)) = IF task[s] = "ok" THEN 1 ELSE 0
  BY DEF HandedOverOnce
<1> USE DEF PlacesInv, OneStageEach
<1>1. \A p, q \in Places(s) : p = q
  <2> SUFFICES ASSUME NEW p \in Places(s), NEW q \in Places(s) PROVE p = q
    OBVIOUS
  <2>1. PlaceStage(p, s) = PlaceStage(q, s)
    BY PlacesAreStages
  <2> QED
    BY <2>1, PlacesAreStages DEF PlaceStage, PlaceNames
<1>2. Places(s) # {} <=> task[s] = "ok"
  BY PlacesAreStages
<1>3. CASE Places(s) = {}
  BY <1>2, <1>3, FS_EmptySet
<1>4. CASE Places(s) # {}
  <2>1. PICK p \in Places(s) : Places(s) = {p}
    BY <1>1, <1>4
  <2>2. Cardinality({p}) = 1
    BY FS_Singleton
  <2> QED
    BY <1>2, <1>4, <2>1, <2>2
<1> QED
  BY <1>3, <1>4

(* The second layer: groups and places. *)
PipelineInv == ComponentsInv /\ GroupsInv /\ PlacesInv

THEOREM PipelineInvariant == Spec => []PipelineInv
<1>1. Init => GroupsInv /\ PlacesInv
  BY InitGroups, InitPlaces
<1>2. ComponentsInv /\ GroupsInv /\ PlacesInv /\ [Next]_vars
        => (GroupsInv /\ PlacesInv)'
  BY StepKeepsGroups, StepKeepsPlaces
<1> QED
  BY <1>1, <1>2, ComponentsInvariant, PTL DEF Spec, PipelineInv

(* A hand-over neither loses nor duplicates a sample, through queues of    *)
(* any size and any number of judges.                                      *)
THEOREM SamplesAreHandedOverOnce == Spec => []HandedOverOnce
<1>1. PipelineInv => HandedOverOnce
  BY PlacesImplyHandedOver DEF PipelineInv
<1> QED
  BY <1>1, PipelineInvariant, PTL

(* The types of every variable, staleness_samples and the lock's queue     *)
(* with the bounds TypeOK gives them.                                      *)
THEOREM JobTypes == Spec => []TypeOK
<1>1. PipelineInv => TypeOK
  <2> SUFFICES ASSUME PipelineInv PROVE TypeOK
    OBVIOUS
  <2> USE DEF PipelineInv, ComponentsInv
  <2>1. RollouterTypeOK
    <3>1. Len(lockQueue) <= 4
      BY QueueIsBounded DEF RollouterInv, RollouterData
    <3>2. staleness \in 0 .. SampleCount + 1 /\ resetTo \in 0 .. SampleCount
      BY RollouterAssumption DEF RollouterInv, RollouterData, TakenInOrder
    <3>3. taken \in Samples \union {0}
      BY RollouterAssumption DEF RollouterInv, RollouterData, Samples
    <3> QED
      BY <3>1, <3>2, <3>3 DEF RollouterInv, RollouterData, RollouterTypeOK
  <2>2. TrainerTypeOK
    <3>1. consumedCount \in 0 .. RequiredSamples
      BY TrainerNumbers DEF TrainerInv, TrainerData, BatchFills
    <3> QED
      BY <3>1 DEF TrainerInv, TrainerData, TrainerTypeOK
  <2>3. \A s \in Samples : group[s] \in GroupIds \union {NoGroup}
    BY DEF GroupsInv, GroupData
  <2>4. CoordinatorTypeOK /\ DispatcherTypeOK
    BY DEF CoordinatorIInv, DispatcherData
  <2> QED
    BY <2>1, <2>2, <2>3, <2>4 DEF TypeOK, TrainerInv, TrainerData
<1> QED
  BY <1>1, PipelineInvariant, PTL

-----------------------------------------------------------------------------
(* The window and the pipeline.  A group is a member of the current window *)
(* from its admission until the version advances, and by then its sample   *)
(* is trained; it is judged between publish and mark_reward_done.          *)
Fresh(s) ==
  IsMember(s) /\ group[s] \notin rewardDone /\ group[s] \notin consumed

FreshWhileEarly ==
  /\ \A s \in Samples : task[s] \in {"generating", "enqueue"} => Fresh(s)
  /\ \A s \in Samples, p \in Early : At(p, s) => Fresh(s)
  /\ dispatcher = "mark" => IsMember(payload) /\ group[payload] \notin rewardDone
  /\ \A s \in Samples :
       At("queue", s) => IsMember(s) /\ group[s] \notin consumed

ConsumedInOrder ==
  /\ \A i \in DOMAIN batch :
       IsMember(batch[i]) /\ (group[batch[i]] \in consumed <=> i <= consumedCount)
  /\ \A s \in Samples : group[s] \in consumed => Trained(s) \/ InSeq(batch, s)
  /\ \A s \in Samples : Trained(s) /\ IsMember(s) => group[s] \in consumed

TrainedInWindow ==
  /\ \A s \in Samples : group[s] # NoGroup /\ ~IsMember(s) => Trained(s)
  /\ \A e \in trained : group[e[1]][1] = e[2]

Published(s) == At("queue", s) \/ InSeq(batch, s) \/ Trained(s)

MarkedOncePublished ==
  \A s \in Samples :
    IsMember(s) /\ Published(s) =>
      group[s] \in rewardDone \/ (dispatcher = "mark" /\ payload = s)

MembersInv ==
  /\ FreshWhileEarly /\ ConsumedInOrder
  /\ TrainedInWindow /\ MarkedOncePublished

(* Steps that leave coordinator, groups and trainer alone. *)
LEMMA QuietKeepsMembers ==
  ASSUME MembersInv,
         UNCHANGED <<coordinatorVars, group, batch, consumedCount, trained>>,
         \A s \in Samples : task'[s] \in {"generating", "enqueue"} =>
                              task[s] \in {"generating", "enqueue"},
         \A s \in Samples, p \in Early : At(p, s)' =>
           task[s] = "enqueue" \/ \E q \in Early : At(q, s),
         \A s \in Samples : At("queue", s)' =>
           \/ At("queue", s)
           \/ At("publish", s) /\ dispatcher' = "mark" /\ payload' = s,
         dispatcher' = "mark" =>
           \/ dispatcher = "mark" /\ payload' = payload
           \/ payload' \in Samples /\ At("publish", payload'),
         dispatcher = "mark" => dispatcher' = "mark" /\ payload' = payload
  PROVE  MembersInv'
<1>1. "publish" \in Early
  BY DEF Early
<1>2. FreshWhileEarly'
  BY <1>1 DEF MembersInv, FreshWhileEarly, Fresh, IsMember, coordinatorVars
<1>3. ConsumedInOrder' /\ TrainedInWindow'
  BY DEF MembersInv, ConsumedInOrder, TrainedInWindow, IsMember, Trained,
         coordinatorVars
<1>4. MarkedOncePublished'
  <2> SUFFICES ASSUME NEW s \in Samples, IsMember(s)', Published(s)'
               PROVE  \/ group'[s] \in rewardDone'
                      \/ dispatcher' = "mark" /\ payload' = s
    BY DEF MarkedOncePublished
  <2>1. IsMember(s) /\ rewardDone' = rewardDone /\ group' = group
    BY DEF IsMember, coordinatorVars
  <2>2. At("queue", s)' \/ InSeq(batch, s) \/ Trained(s)
    BY DEF Published, Trained
  <2> QED
    BY <2>1, <2>2 DEF MembersInv, MarkedOncePublished, Published
<1> QED
  BY <1>2, <1>3, <1>4 DEF MembersInv

LEMMA AdmissionKeepsMembers ==
  ASSUME PipelineInv, MembersInv, NEW s \in Samples, Admit(s)
  PROVE  MembersInv'
<1> USE DEF PipelineInv, ComponentsInv
<1>1. /\ NextGroupId \in GroupIds /\ NextGroupId \notin IdsUsed
      /\ admitted' = admitted \union {NextGroupId}
      /\ UNCHANGED <<rewardDone, consumed>>
      /\ rewardDone \subseteq admitted /\ consumed \subseteq admitted
      /\ admitted \subseteq IdsUsed
  BY AdmissionUsesFreshId DEF Admit, RequestAdmission, CoordinatorIInv,
     CoordinatorTypeOK, IdsUsed
<1>2. /\ group' = [group EXCEPT ![s] = NextGroupId]
      /\ task[s] = "admission" /\ task' = [task EXCEPT ![s] = "generating"]
      /\ UNCHANGED <<rawQueue, scoredQueue, judging, scored, unscored, unjudged,
                     dispatcher, payload, batch, consumedCount, trained,
                     givenUp>>
  BY DEF Admit, TaskAdmitted, TaskStep, OutsideTasks, judgeVars, dispatcherVars,
         trainerVars
<1>3. /\ group'[s] = NextGroupId
      /\ \A x \in Samples : x # s => group'[x] = group[x] /\ task'[x] = task[x]
      /\ task[s] # "ok"
  BY <1>2 DEF GroupsInv, GroupData, RollouterInv, RollouterData
<1>4. /\ \A p \in Stages : ~At(p, s)
      /\ dispatcher = "mark" => payload \in Samples /\ payload # s
      /\ \A p \in Stages, x \in Samples : At(p, x)' <=> At(p, x)
  <2>1. \A p \in Stages : ~At(p, s)
    BY <1>3 DEF PlacesInv, OneStageEach
  <2>2. dispatcher = "mark" => payload \in Samples /\ payload # s
    BY <1>3, PayloadIsSample DEF PlacesInv, MarkedIsPast
  <2>3. \A p \in Stages, x \in Samples : At(p, x)' <=> At(p, x)
    BY <1>2, SameStages DEF NoneMoves
  <2> QED
    BY <2>1, <2>2, <2>3
<1>5. ~Trained(s) /\ ~InSeq(batch, s)
  BY <1>4 DEF At, Stages, Early
<1>6. NextGroupId \notin admitted /\ NextGroupId \notin rewardDone
      /\ NextGroupId \notin consumed
  BY <1>1
<1>7. \A i \in DOMAIN batch : batch[i] \in Samples /\ batch[i] # s
  BY <1>5, LenProperties, ElementOfSeq DEF TrainerInv, TrainerData, InSeq
<1>8. Early \subseteq Stages /\ "queue" \in Stages
  BY DEF Stages
<1>9. FreshWhileEarly'
  BY <1>1, <1>2, <1>3, <1>4, <1>6, <1>8
     DEF MembersInv, FreshWhileEarly, Fresh, IsMember
<1>13. \A x : (Trained(x)' <=> Trained(x))
             /\ (InSeq(batch, x)' <=> InSeq(batch, x))
  BY <1>2 DEF Trained
<1>10. ConsumedInOrder'
  <2>1. \A i \in DOMAIN batch' :
          /\ IsMember(batch[i])'
          /\ group'[batch'[i]] \in consumed' <=> i <= consumedCount'
    BY <1>1, <1>2, <1>3, <1>7 DEF MembersInv, ConsumedInOrder, IsMember
  <2>2. \A x \in Samples : group'[x] \in consumed' =>
          Trained(x)' \/ InSeq(batch, x)'
    BY <1>1, <1>3, <1>6, <1>13 DEF MembersInv, ConsumedInOrder
  <2>3. \A x \in Samples : Trained(x)' /\ IsMember(x)' =>
          group'[x] \in consumed'
    <3> SUFFICES ASSUME NEW x \in Samples, Trained(x)', IsMember(x)'
                 PROVE  group'[x] \in consumed'
      OBVIOUS
    <3>1. Trained(x) /\ x # s
      BY <1>5, <1>13
    <3>2. group'[x] = group[x] /\ group[x] # NextGroupId
      BY <1>1, <1>3, <3>1, NoGroupIsNoId DEF GroupsInv, OneGroupEach
    <3>3. IsMember(x)
      BY <1>1, <3>2 DEF IsMember
    <3> QED
      BY <1>1, <3>1, <3>2, <3>3 DEF MembersInv, ConsumedInOrder
  <2> QED
    BY <2>1, <2>2, <2>3 DEF ConsumedInOrder, IsMember
<1>11. TrainedInWindow'
  <2>1. \A e \in trained : e[1] \in Samples /\ e[1] # s
    BY <1>5 DEF Trained, TrainerInv, TrainerData
  <2> QED
    BY <1>1, <1>2, <1>3, <2>1
       DEF MembersInv, TrainedInWindow, IsMember, Trained
<1>12. MarkedOncePublished'
  <2> SUFFICES ASSUME NEW x \in Samples, IsMember(x)', Published(x)'
               PROVE  \/ group'[x] \in rewardDone'
                      \/ dispatcher' = "mark" /\ payload' = x
    BY DEF MarkedOncePublished
  <2>1. Published(x)
    BY <1>4, <1>8, <1>13 DEF Published
  <2>2. x # s
    BY <1>4, <1>5, <1>8, <2>1 DEF Published
  <2>3. group'[x] = group[x] /\ group[x] # NextGroupId
    BY <1>1, <1>3, <2>2, NoGroupIsNoId DEF GroupsInv, OneGroupEach
  <2>4. IsMember(x)
    BY <1>1, <2>3 DEF IsMember
  <2> QED
    BY <1>1, <1>2, <2>1, <2>3, <2>4 DEF MembersInv, MarkedOncePublished
<1> QED
  BY <1>9, <1>10, <1>11, <1>12 DEF MembersInv

LEMMA MarkKeepsMembers ==
  ASSUME PipelineInv, MembersInv, DispatcherMarks
  PROVE  MembersInv'
<1> USE DEF PipelineInv, ComponentsInv
<1>1. /\ payload \in Samples /\ IsMember(payload)
      /\ \A p \in Early : ~At(p, payload)
      /\ task[payload] = "ok"
  BY PayloadIsSample DEF DispatcherMarks, MembersInv, FreshWhileEarly,
     PlacesInv, MarkedIsPast
<1>2. /\ rewardDone' = rewardDone \union {group[payload]}
      /\ UNCHANGED <<admitted, consumed, paramVersion>>
  BY <1>1 DEF DispatcherMarks, MarkRewardDone
<1>3. /\ UNCHANGED <<rawQueue, scoredQueue, judging, scored, unscored, unjudged,
                     batch, consumedCount, trained, givenUp, group, task>>
      /\ dispatcher = "mark" /\ dispatcher' \in {"pull", "endRaising"}
  BY DEF DispatcherMarks, Marked, AfterError, OutsideJudging, judgeVars,
     trainerVars, rollouterVars, sampleTasks, jobVars, sampleVars
<1>4. \A x \in Samples : x # payload /\ IsMember(x) => group[x] # group[payload]
  BY <1>1, NoGroupIsNoId DEF GroupsInv, OneGroupEach, IsMember,
     CoordinatorIInv, CoordinatorTypeOK
<1>5. \A p \in Stages, x \in Samples : At(p, x)' <=> At(p, x)
  BY <1>3, SameStages DEF NoneMoves
<1>6. Early \subseteq Stages /\ "queue" \in Stages
  BY DEF Stages
<1>7. FreshWhileEarly'
  BY <1>1, <1>2, <1>3, <1>4, <1>5, <1>6
     DEF MembersInv, FreshWhileEarly, Fresh, IsMember
<1>8. ConsumedInOrder' /\ TrainedInWindow'
  BY <1>2, <1>3 DEF MembersInv, ConsumedInOrder, TrainedInWindow, IsMember,
                    Trained
<1>9. MarkedOncePublished'
  <2> SUFFICES ASSUME NEW x \in Samples, IsMember(x)', Published(x)'
               PROVE  group'[x] \in rewardDone'
    BY DEF MarkedOncePublished
  <2>1. Published(x)
    BY <1>3, <1>5, <1>6 DEF Published, Trained
  <2>2. IsMember(x) /\ group' = group
    BY <1>2, <1>3 DEF IsMember
  <2> QED
    BY <1>2, <2>1, <2>2 DEF MembersInv, MarkedOncePublished
<1> QED
  BY <1>7, <1>8, <1>9 DEF MembersInv

LEMMA CollectKeepsMembers ==
  ASSUME PipelineInv, MembersInv, Collect
  PROVE  MembersInv'
<1> USE DEF PipelineInv, ComponentsInv
<1>1. /\ UNCHANGED <<paramVersion, admitted, rewardDone, consumed, group,
                     dispatcher, payload, task, consumedCount, trained>>
      /\ trainer = "collect" /\ consumedCount = 0 /\ batch \in Seq(Samples)
  BY DEF Collect, CollectSample, CollectEnd, OutsideTrainer, coordinatorVars,
     jobVars, sampleVars, dispatcherVars, rollouterVars, sampleTasks,
     TrainerInv, TrainerData, BatchFills
<1>2. Early \subseteq Stages /\ "queue" \in Stages /\ "batch" \notin Early
      /\ "queue" \notin Early
  BY DEF Stages, Early
<1>3. \A i \in DOMAIN batch :
        IsMember(batch[i]) /\ group[batch[i]] \notin consumed
  <2>1. \A i \in DOMAIN batch : ~(i <= 0)
    BY <1>1, LenProperties
  <2> QED
    BY <1>1, <2>1 DEF MembersInv, ConsumedInOrder
<1>4. \A x : Trained(x)' <=> Trained(x)
  BY <1>1 DEF Trained
<1>5. \A x : IsMember(x)' <=> IsMember(x)
  BY <1>1 DEF IsMember
<1>6. TrainedInWindow'
  BY <1>1, <1>4, <1>5 DEF MembersInv, TrainedInWindow
<1>7. CASE /\ CollectSample(Head(scoredQueue)) /\ Head(scoredQueue) \in Samples
           /\ Moves(Head(scoredQueue), "batch") /\ At("queue", Head(scoredQueue))
  <2> DEFINE s == Head(scoredQueue)
  <2>1. batch' = Append(batch, s) /\ s \in Samples /\ At("queue", s)
    BY <1>7 DEF CollectSample
  <2>2. \A p \in Stages, x \in Samples :
          At(p, x)' <=> IF x = s THEN p = "batch" ELSE At(p, x)
    BY <1>7 DEF Moves
  <2> HIDE DEF s
  <2>3. \A x : InSeq(batch', x) <=> InSeq(batch, x) \/ s = x
    BY <1>1, <2>1, InAppend
  <2>4. IsMember(s) /\ group[s] \notin consumed
    BY <2>1 DEF MembersInv, FreshWhileEarly
  <2>5. FreshWhileEarly'
    BY <1>1, <1>2, <2>2
       DEF MembersInv, FreshWhileEarly, Fresh, IsMember
  <2>6. \A i \in DOMAIN batch' :
          IsMember(batch'[i]) /\ group[batch'[i]] \notin consumed
    BY <1>1, <1>3, <2>1, <2>4, AppendProperties, LenProperties
  <2>7. \A i \in DOMAIN batch' : ~(i <= 0)
    BY <1>1, <2>1, AppendProperties, LenProperties
  <2>8. ConsumedInOrder'
    <3>1. \A i \in DOMAIN batch' :
            /\ IsMember(batch[i])'
            /\ group'[batch'[i]] \in consumed' <=> i <= consumedCount'
      BY <1>1, <2>6, <2>7 DEF IsMember
    <3>2. \A x \in Samples : group'[x] \in consumed' =>
            Trained(x)' \/ InSeq(batch, x)'
      BY <1>1, <1>4, <2>3 DEF MembersInv, ConsumedInOrder
    <3>3. \A x \in Samples : Trained(x)' /\ IsMember(x)' =>
            group'[x] \in consumed'
      BY <1>1, <1>4, <1>5 DEF MembersInv, ConsumedInOrder
    <3> QED
      BY <3>1, <3>2, <3>3 DEF ConsumedInOrder
  <2>9. MarkedOncePublished'
    <3> SUFFICES ASSUME NEW x \in Samples, IsMember(x)', Published(x)'
                 PROVE  \/ group'[x] \in rewardDone'
                        \/ dispatcher' = "mark" /\ payload' = x
      BY DEF MarkedOncePublished
    <3>1. Published(x)
      BY <1>2, <1>4, <2>1, <2>2, <2>3 DEF Published
    <3> QED
      BY <1>1, <1>5, <3>1 DEF MembersInv, MarkedOncePublished
  <2> QED
    BY <1>6, <2>5, <2>8, <2>9 DEF MembersInv
<1>8. CASE /\ CollectEnd
           /\ \A p \in Stages, x \in Samples :
                At(p, x)' <=> \/ p # "batch" /\ At(p, x)
                              \/ p = "givenUp" /\ At("batch", x)
  <2>1. batch' = <<>> /\ DOMAIN <<>> = {}
    BY <1>8 DEF CollectEnd
  <2>2. \A x : ~InSeq(batch', x)
    BY <2>1 DEF InSeq
  <2>3. FreshWhileEarly'
    <3>1. "givenUp" \notin Early
      BY DEF Early
    <3> QED
      BY <1>1, <1>2, <1>8, <3>1
       DEF MembersInv, FreshWhileEarly, Fresh, IsMember
  <2>4. \A x \in Samples : group[x] \in consumed => ~InSeq(batch, x)
    BY <1>3 DEF InSeq
  <2>5. ConsumedInOrder'
    <3>1. \A x \in Samples : group'[x] \in consumed' => Trained(x)'
      BY <1>1, <1>4, <2>4 DEF MembersInv, ConsumedInOrder
    <3>2. \A x \in Samples : Trained(x)' /\ IsMember(x)' =>
            group'[x] \in consumed'
      BY <1>1, <1>4, <1>5 DEF MembersInv, ConsumedInOrder
    <3> QED
      BY <2>1, <3>1, <3>2 DEF ConsumedInOrder
  <2>6. MarkedOncePublished'
    <3> SUFFICES ASSUME NEW x \in Samples, IsMember(x)', Published(x)'
                 PROVE  \/ group'[x] \in rewardDone'
                        \/ dispatcher' = "mark" /\ payload' = x
      BY DEF MarkedOncePublished
    <3>1. Published(x)
      BY <1>2, <1>4, <1>8, <2>2 DEF Published
    <3> QED
      BY <1>1, <1>5, <3>1 DEF MembersInv, MarkedOncePublished
  <2> QED
    BY <1>6, <2>3, <2>5, <2>6 DEF MembersInv
<1> QED
  BY <1>7, <1>8, CollectKeepsPlaces

(* Two members of the window that share a group are the same sample.       *)
LEMMA MembersDiffer ==
  ASSUME PipelineInv, NEW x \in Samples, NEW y \in Samples,
         IsMember(x), group[x] = group[y]
  PROVE  x = y
BY NoGroupIsNoId DEF PipelineInv, ComponentsInv, GroupsInv, OneGroupEach,
   IsMember, CoordinatorIInv, CoordinatorTypeOK

LEMMA ConsumeKeepsMembers ==
  ASSUME PipelineInv, MembersInv, TrainerConsumes
  PROVE  MembersInv'
<1> DEFINE n == consumedCount + 1
           s == batch[n]
<1> USE DEF PipelineInv, ComponentsInv
<1>1. /\ n \in DOMAIN batch /\ s \in Samples
      /\ n \in Nat /\ consumedCount \in Nat
      /\ \A i \in DOMAIN batch : i \in Nat /\ batch[i] \in Samples
      /\ \A i \in DOMAIN batch : batch[i] = s => i = n
  <2>1. /\ batch \in Seq(Samples) /\ Len(batch) = RequiredSamples
        /\ consumedCount < RequiredSamples /\ consumedCount \in Nat
        /\ Distinct(batch)
    BY DEF TrainerConsumes, TrainerInv, TrainerData, BatchFills, PlacesInv,
           QueuedOnceEach
  <2>2. DOMAIN batch = 1 .. RequiredSamples
    BY <2>1, LenProperties
  <2>3. n \in DOMAIN batch
    BY <2>1, <2>2, TrainerNumbers
  <2>4. \A i \in DOMAIN batch : i \in Nat /\ batch[i] \in Samples
    BY <2>1, <2>2, ElementOfSeq
  <2> QED
    BY <2>1, <2>3, <2>4, SampleIsNoMarker DEF Distinct
<1>2. IsMember(s) /\ InSeq(batch, s) /\ At("batch", s)
  BY <1>1 DEF MembersInv, ConsumedInOrder, InSeq, At
<1>3. /\ consumed' = consumed \union {group[s]} /\ consumedCount' = n
      /\ UNCHANGED <<admitted, rewardDone, group, rawQueue, scoredQueue,
                     judging, scored, unscored, unjudged, dispatcher, payload,
                     batch, trained, givenUp, task>>
  BY <1>2 DEF TrainerConsumes, MarkConsumed, ConsumedNext, OutsideTrainer,
     judgeVars, dispatcherVars, jobVars, sampleVars, rollouterVars, sampleTasks
<1> HIDE DEF n, s
<1>4. \A p \in Stages, x \in Samples : At(p, x)' <=> At(p, x)
  BY <1>3, SameStages DEF NoneMoves
<1>5. /\ Early \subseteq Stages /\ "queue" \in Stages /\ "batch" \in Stages
      /\ "batch" \notin Early
  BY DEF Stages, Early
<1>6. /\ task[s] = "ok" /\ \A p \in Early : ~At(p, s)
      /\ ~At("queue", s)
  BY <1>1, <1>2, <1>5 DEF PlacesInv, OneStageEach
<1>7. \A x \in Samples : group[x] = group[s] => x = s
  BY <1>1, <1>2, MembersDiffer
<1>8. \A x : (Trained(x)' <=> Trained(x)) /\ (IsMember(x)' <=> IsMember(x))
  BY <1>3 DEF Trained, IsMember
<1>9. FreshWhileEarly'
  BY <1>3, <1>4, <1>5, <1>6, <1>7
     DEF MembersInv, FreshWhileEarly, Fresh, IsMember
<1>10. ConsumedInOrder'
  <2>1. ASSUME NEW i \in DOMAIN batch
        PROVE  IsMember(batch[i])
               /\ (group[batch[i]] \in consumed' <=> i <= n)
    <3>1. IsMember(batch[i]) /\ (group[batch[i]] \in consumed
                                 <=> i <= consumedCount)
      BY DEF MembersInv, ConsumedInOrder
    <3>2. group[batch[i]] = group[s] <=> i = n
      BY <1>1, <1>7 DEF s
    <3>3. i <= n <=> i <= consumedCount \/ i = n
      BY <1>1 DEF n
    <3> QED
      BY <1>3, <3>1, <3>2, <3>3
  <2>2. \A i \in DOMAIN batch' :
          /\ IsMember(batch[i])'
          /\ group'[batch'[i]] \in consumed' <=> i <= consumedCount'
    BY <1>3, <2>1 DEF IsMember
  <2>3. \A x \in Samples : group'[x] \in consumed' =>
          Trained(x)' \/ InSeq(batch, x)'
    BY <1>2, <1>3, <1>7, <1>8 DEF MembersInv, ConsumedInOrder
  <2>4. \A x \in Samples : Trained(x)' /\ IsMember(x)' =>
          group'[x] \in consumed'
    BY <1>3, <1>8 DEF MembersInv, ConsumedInOrder
  <2> QED
    BY <2>2, <2>3, <2>4 DEF ConsumedInOrder
<1>11. TrainedInWindow'
  BY <1>3, <1>8 DEF MembersInv, TrainedInWindow
<1>12. MarkedOncePublished'
  <2> SUFFICES ASSUME NEW x \in Samples, IsMember(x)', Published(x)'
               PROVE  \/ group'[x] \in rewardDone'
                      \/ dispatcher' = "mark" /\ payload' = x
    BY DEF MarkedOncePublished
  <2>1. Published(x)
    BY <1>3, <1>4, <1>5, <1>8 DEF Published
  <2> QED
    BY <1>3, <1>8, <2>1 DEF MembersInv, MarkedOncePublished
<1> QED
  BY <1>9, <1>10, <1>11, <1>12 DEF MembersInv

LEMMA TrainKeepsMembers ==
  ASSUME PipelineInv, MembersInv, Train,
         UNCHANGED <<queues, judgeVars, dispatcherVars, coordinatorVars, group,
                     task>>
  PROVE  MembersInv'
<1> USE DEF PipelineInv, ComponentsInv
<1>1. /\ UNCHANGED <<rawQueue, scoredQueue, paramVersion, admitted, rewardDone,
                     consumed, group, dispatcher, payload, task>>
      /\ batch' = <<>> /\ DOMAIN <<>> = {}
      /\ trained' =
           trained \union {<<batch[i], trainerVersion>> : i \in DOMAIN batch}
      /\ trainerVersion = paramVersion
  BY DEF Train, queues, dispatcherVars, coordinatorVars, TrainerInv,
         VersionsAgree
<1>2. \A i \in DOMAIN batch :
        /\ batch[i] \in Samples /\ IsMember(batch[i])
        /\ group[batch[i]] \in consumed
  <2>1. /\ batch \in Seq(Samples) /\ Len(batch) = RequiredSamples
        /\ consumedCount = RequiredSamples
    BY DEF Train, TrainerInv, TrainerData, BatchFills
  <2>2. \A i \in DOMAIN batch : i <= consumedCount /\ batch[i] \in Samples
    BY <2>1, LenProperties, ElementOfSeq, TrainerNumbers
  <2> QED
    BY <2>2 DEF MembersInv, ConsumedInOrder
<1>3. \A x : Trained(x)' <=> Trained(x) \/ InSeq(batch, x)
  BY TrainedGrows
<1>4. \A p \in Stages, x \in Samples :
        At(p, x)' <=> \/ p # "batch" /\ At(p, x)
                      \/ p = "trained" /\ At("batch", x)
  BY TrainKeepsPlaces DEF queues
<1>5. /\ Early \subseteq Stages /\ "queue" \in Stages
      /\ "batch" \notin Early /\ "trained" \notin Early
  BY DEF Stages, Early
<1>6. \A x : (IsMember(x)' <=> IsMember(x)) /\ ~InSeq(batch', x)
  BY <1>1 DEF IsMember, InSeq
<1>7. \A x \in Samples : InSeq(batch, x) => IsMember(x) /\ group[x] \in consumed
  BY <1>2 DEF InSeq
<1>8. FreshWhileEarly'
  BY <1>1, <1>4, <1>5 DEF MembersInv, FreshWhileEarly, Fresh, IsMember
<1>9. ConsumedInOrder'
  <2>1. \A x \in Samples : group'[x] \in consumed' => Trained(x)'
    BY <1>1, <1>3 DEF MembersInv, ConsumedInOrder
  <2>2. \A x \in Samples : Trained(x)' /\ IsMember(x)' =>
          group'[x] \in consumed'
    BY <1>1, <1>3, <1>6, <1>7 DEF MembersInv, ConsumedInOrder
  <2> QED
    BY <1>1, <2>1, <2>2 DEF ConsumedInOrder
<1>10. TrainedInWindow'
  <2>1. \A i \in DOMAIN batch : group[batch[i]][1] = paramVersion
    BY <1>2 DEF IsMember, CoordinatorIInv, MembersAreNumbered
  <2>2. \A e \in trained' : group'[e[1]][1] = e[2]
    BY <1>1, <2>1 DEF MembersInv, TrainedInWindow
  <2>3. \A x \in Samples : group'[x] # NoGroup /\ ~IsMember(x)' => Trained(x)'
    BY <1>1, <1>3, <1>6 DEF MembersInv, TrainedInWindow
  <2> QED
    BY <2>2, <2>3 DEF TrainedInWindow
<1>11. MarkedOncePublished'
  <2> SUFFICES ASSUME NEW x \in Samples, IsMember(x)', Published(x)'
               PROVE  \/ group'[x] \in rewardDone'
                      \/ dispatcher' = "mark" /\ payload' = x
    BY DEF MarkedOncePublished
  <2>1. Published(x)
    BY <1>3, <1>4, <1>5, <1>6 DEF Published
  <2> QED
    BY <1>1, <1>6, <2>1 DEF MembersInv, MarkedOncePublished
<1> QED
  BY <1>8, <1>9, <1>10, <1>11 DEF MembersInv

(* When the version advances every member is trained, so the window takes  *)
(* nothing with it that is still in the pipeline.                          *)
LEMMA AdvanceKeepsMembers ==
  ASSUME PipelineInv, MembersInv, AdvanceVersion, trainer = "version",
         UNCHANGED <<queues, judgeVars, dispatcherVars, group, task, batch,
                     trained, givenUp>>
  PROVE  MembersInv'
<1> USE DEF PipelineInv, ComponentsInv
<1>1. /\ rewardDone = admitted /\ consumed = admitted
      /\ admitted' = {} /\ consumed' = {}
      /\ UNCHANGED <<rawQueue, scoredQueue, judging, scored, unscored, unjudged,
                     dispatcher, payload, group, task, batch, trained,
                     givenUp>>
      /\ batch = <<>> /\ DOMAIN <<>> = {}
  BY DEF AdvanceVersion, ReadyForSync, CoordinatorIInv, SealedAwaitsReward,
     queues, judgeVars, dispatcherVars, TrainerInv, BatchFills
<1>2. \A p \in Stages, x \in Samples : At(p, x)' <=> At(p, x)
  BY <1>1, SameStages DEF NoneMoves
<1>3. /\ \A x : ~InSeq(batch, x) /\ (Trained(x)' <=> Trained(x))
      /\ \A x : ~IsMember(x)'
      /\ Early \subseteq Stages /\ "queue" \in Stages
  BY <1>1 DEF InSeq, Trained, IsMember, Stages
<1>4. FreshWhileEarly'
  <2>1. \A x \in Samples : IsMember(x) => group[x] \in consumed
                                          /\ group[x] \in rewardDone
    BY <1>1 DEF IsMember
  <2>2. /\ \A x \in Samples : ~(task[x] \in {"generating", "enqueue"})
        /\ \A x \in Samples, p \in Early : ~At(p, x)
        /\ dispatcher # "mark"
        /\ \A x \in Samples : ~At("queue", x)
    BY <2>1, PayloadIsSample DEF MembersInv, FreshWhileEarly, Fresh
  <2> QED
    BY <1>1, <1>2, <1>3, <2>2 DEF FreshWhileEarly
<1>5. ConsumedInOrder'
  BY <1>1, <1>3 DEF ConsumedInOrder
<1>6. TrainedInWindow'
  <2>1. \A x \in Samples : IsMember(x) => Trained(x)
    BY <1>1, <1>3 DEF MembersInv, ConsumedInOrder, IsMember
  <2>2. \A x \in Samples : group'[x] # NoGroup => Trained(x)'
    BY <1>1, <1>3, <2>1 DEF MembersInv, TrainedInWindow
  <2> QED
    BY <1>1, <2>2 DEF MembersInv, TrainedInWindow
<1>7. MarkedOncePublished'
  BY <1>3 DEF MarkedOncePublished
<1> QED
  BY <1>4, <1>5, <1>6, <1>7 DEF MembersInv

LEMMA TrainerKeepsMembers ==
  ASSUME PipelineInv, MembersInv, TrainerStep
  PROVE  MembersInv'
<1>1. CASE Collect
  BY <1>1, CollectKeepsMembers
<1>2. CASE TrainerConsumes
  BY <1>2, ConsumeKeepsMembers
<1>3. CASE TrainerStep /\ ~Collect /\ ~TrainerConsumes
  <2>1. UNCHANGED <<queues, judgeVars, dispatcherVars, group, task>>
    BY <1>3, TrainerPlaces DEF TrainerStep, TrainerAlone, StartSync,
       SyncVersion, TransferWeights, OutsideTrainer, jobVars, sampleVars, queues
  <2>2. \/ Train /\ UNCHANGED coordinatorVars
        \/ AdvanceVersion /\ trainer = "version"
           /\ UNCHANGED <<batch, trained, givenUp>>
        \/ UNCHANGED <<coordinatorVars, batch, consumedCount, trained,
                        givenUp>>
    BY <1>3 DEF TrainerStep, TrainerAlone, FinalValidation, FinalWait,
       StartSync, CallPause, SyncVersion, KeepVersion, VersionAdvanced,
       VersionRefused, TransferWeights, SyncWeights, MoveTo
  <2>3. CASE UNCHANGED <<coordinatorVars, batch, consumedCount, trained,
                         givenUp>>
    <3>1. UNCHANGED <<rawQueue, judging, scored, unscored, unjudged, scoredQueue,
                      dispatcher, payload>>
      BY <2>1 DEF queues, judgeVars, dispatcherVars
    <3>2. \A p \in Stages, x \in Samples : At(p, x)' <=> At(p, x)
      BY <2>3, <3>1, SameStages DEF NoneMoves
    <3>3. Early \subseteq Stages /\ "queue" \in Stages
      BY DEF Stages
    <3> QED
      BY <2>1, <2>3, <3>1, <3>2, <3>3, QuietKeepsMembers
  <2> QED
    BY <2>1, <2>2, <2>3, TrainKeepsMembers, AdvanceKeepsMembers
<1> QED
  BY <1>1, <1>2, <1>3

(* A step of the dispatcher or of a judge alone. *)
LEMMA JudgingKeepsMembers ==
  ASSUME PipelineInv, MembersInv,
         DispatcherAlone \/ \E w \in Workers : Judge(w)
  PROVE  MembersInv'
<1> USE DEF PipelineInv, ComponentsInv
<1>1. UNCHANGED <<coordinatorVars, group, batch, consumedCount, trained, task,
                  trainerVars>>
  BY DEF DispatcherAlone, Judge, OutsideJudging, trainerVars, jobVars,
         sampleVars, rollouterVars, sampleTasks
<1>2. /\ Early \subseteq Stages /\ "queue" \in Stages /\ "publish" \in Early
      /\ "queue" \notin Early
  BY DEF Stages, Early
<1>3. ASSUME NoneMoves, UNCHANGED payload,
             \/ dispatcher' = dispatcher
             \/ dispatcher # "mark" /\ dispatcher' # "mark"
      PROVE  MembersInv'
  BY <1>1, <1>2, <1>3, QuietKeepsMembers DEF NoneMoves
<1>4. ASSUME NEW x \in Samples, NEW q \in Early, Moves(x, q),
             \E p \in Early : At(p, x),
             \/ UNCHANGED <<dispatcher, payload>>
             \/ dispatcher # "mark" /\ dispatcher' # "mark"
      PROVE  MembersInv'
  BY <1>1, <1>2, <1>4, QuietKeepsMembers DEF Moves
<1>5. ASSUME NEW w \in Workers, Judge(w)  PROVE MembersInv'
  <2>1. UNCHANGED <<dispatcher, payload>>
    BY <1>5 DEF Judge, JudgeFinishes, dispatcherVars
  <2>2. "judge" \in Early /\ "scored" \in Early /\ "unscored" \in Early
    BY DEF Early
  <2> QED
    BY <1>4, <1>5, <2>1, <2>2, JudgeKeepsPlaces
<1>6. CASE Pull
  <2>1. UNCHANGED <<dispatcher, payload>>
    BY <1>6 DEF Pull
  <2>2. "judge" \in Early /\ "raw" \in Early
    BY DEF Early
  <2>3. CASE NoneMoves
    BY <1>3, <2>1, <2>3
  <2>4. CASE /\ Head(rawQueue) \in Samples /\ Moves(Head(rawQueue), "judge")
             /\ At("raw", Head(rawQueue))
    BY <1>4, <2>1, <2>2, <2>4
  <2> QED
    BY <1>1, <1>6, <2>3, <2>4, PullKeepsPlaces
<1>7. CASE PullNothing \/ ReapNothing \/ PublishEnd
  <2>1. NoneMoves
    BY <1>1, <1>7, SameStages, PublishEndKeepsPlaces
       DEF PullNothing, ReapNothing, judgeVars, trainerVars
  <2>2. payload' = payload /\ dispatcher # "mark" /\ dispatcher' # "mark"
    BY <1>7 DEF PullNothing, ReapNothing, PublishEnd
  <2> QED
    BY <1>3, <2>1, <2>2
<1>8. ASSUME NEW s \in Samples, ReapScore(s)  PROVE MembersInv'
  <2>1. dispatcher = "reap"
    BY <1>8 DEF ReapScore
  <2>2. CASE /\ Moves(s, "publish") /\ At("scored", s)
             /\ dispatcher' = "publish" /\ payload' = s
    <3>1. "scored" \in Early
      BY DEF Early
    <3> QED
      BY <1>2, <1>4, <2>1, <2>2, <3>1
  <2>3. CASE /\ Moves(s, "unjudged") /\ At("unscored", s)
             /\ dispatcher' \notin {"publish", "mark"}
    <3>1. "unscored" \in Early /\ "unjudged" \in Early
      BY DEF Early
    <3> QED
      BY <1>2, <1>4, <2>1, <2>3, <3>1
  <2> QED
    BY <1>1, <1>8, <2>2, <2>3, ReapKeepsPlaces
<1>9. CASE Publish
  <2>1. /\ payload \in Samples /\ Moves(payload, "queue")
        /\ At("publish", payload)
    BY <1>1, <1>9, PublishKeepsPlaces
  <2>2. dispatcher = "publish" /\ dispatcher' = "mark" /\ payload' = payload
    BY <1>9 DEF Publish
  <2> QED
    BY <1>1, <1>2, <2>1, <2>2, QuietKeepsMembers DEF Moves
<1> QED
  BY <1>5, <1>6, <1>7, <1>8, <1>9 DEF DispatcherAlone

LEMMA StepKeepsMembers ==
  PipelineInv /\ MembersInv /\ [Next]_vars => MembersInv'
<1> SUFFICES ASSUME PipelineInv, MembersInv, [Next]_vars PROVE MembersInv'
  OBVIOUS
<1> USE DEF PipelineInv, ComponentsInv
<1>0. /\ Early \subseteq Stages /\ "queue" \in Stages /\ "raw" \in Early
      /\ "queue" \notin Early
  BY DEF Stages, Early
<1>1. ASSUME UNCHANGED <<pipelineVars, trainerVars, coordinatorVars, group>>,
             \A s \in Samples : task'[s] \in {"generating", "enqueue"} =>
                                  task[s] \in {"generating", "enqueue"}
      PROVE  MembersInv'
  <2>1. UNCHANGED <<rawQueue, judging, scored, unscored, unjudged, scoredQueue, batch,
                    trained, givenUp, consumedCount, dispatcher, payload>>
    BY <1>1 DEF pipelineVars, queues, judgeVars, dispatcherVars, trainerVars
  <2>2. \A p \in Stages, x \in Samples : At(p, x)' <=> At(p, x)
    BY <2>1, SameStages DEF NoneMoves
  <2> QED
    BY <1>0, <1>1, <2>1, <2>2, QuietKeepsMembers
<1>2. CASE UNCHANGED sampleState
  BY <1>1, <1>2 DEF sampleState, sampleVars
<1>3. ASSUME NEW s \in Samples, TaskGoesOn(s)  PROVE MembersInv'
  <2>1. UNCHANGED <<pipelineVars, trainerVars, coordinatorVars, group>>
    BY <1>3 DEF TaskGoesOn, sampleVars
  <2>2. \A x \in Samples : task'[x] \in {"generating", "enqueue"} =>
                             task[x] \in {"generating", "enqueue"}
    BY <1>3 DEF TaskGoesOn, RollouterInv, RollouterData
  <2> QED
    BY <1>1, <2>1, <2>2
<1>4. ASSUME NEW s \in Samples, TaskEnds(s)  PROVE MembersInv'
  <2>1. UNCHANGED <<coordinatorVars, group, batch, consumedCount, trained,
                    dispatcher, payload>>
    BY <1>4 DEF TaskEnds, PutRaw, JudgingOnly, dispatcherVars, trainerVars,
                sampleVars
  <2>2. /\ task[s] = "enqueue" /\ task'[s] = "ok" /\ Moves(s, "raw")
        /\ \A x \in Samples : x # s => task'[x] = task[x]
    BY <1>4, EnqueueKeepsPlaces DEF TaskEnds
  <2> QED
    BY <1>0, <2>1, <2>2, QuietKeepsMembers DEF Moves
<1>5. CASE EndIsPut
  <2>1. UNCHANGED <<coordinatorVars, group, batch, consumedCount, trained,
                    dispatcher, payload, task>>
    BY <1>5 DEF EndIsPut, PutRaw, JudgingOnly, dispatcherVars, trainerVars,
                sampleVars
  <2>2. NoneMoves
    BY <1>5, EndKeepsPlaces
  <2> QED
    BY <1>0, <2>1, <2>2, QuietKeepsMembers DEF NoneMoves
<1>6. CASE InitialSynchronisation
  <2>1. UNCHANGED <<pipelineVars, coordinatorVars, group, task, batch,
                    consumedCount, trained, givenUp>>
    BY <1>6 DEF InitialSynchronisation, InitialSync, MoveTo, OutsideMain,
       pipelineVars, sampleVars, rollouterVars, sampleTasks
  <2>2. UNCHANGED <<rawQueue, judging, scored, unscored, unjudged, scoredQueue,
                    dispatcher, payload>>
    BY <2>1 DEF pipelineVars, queues, judgeVars, dispatcherVars
  <2>3. \A p \in Stages, x \in Samples : At(p, x)' <=> At(p, x)
    BY <2>1, <2>2, SameStages DEF NoneMoves
  <2> QED
    BY <1>0, <2>1, <2>2, <2>3, QuietKeepsMembers
<1> QED
  BY <1>2, <1>3, <1>4, <1>5, <1>6, JobSteps, AdmissionKeepsMembers,
     JudgingKeepsMembers, MarkKeepsMembers, TrainerKeepsMembers

LEMMA InitMembers == Init => MembersInv
<1> SUFFICES ASSUME Init PROVE MembersInv
  OBVIOUS
<1>1. /\ \A w \in Workers : judging[w] = <<>>
      /\ rawQueue = <<>> /\ scoredQueue = <<>> /\ batch = <<>>
      /\ scored = {} /\ unscored = {} /\ unjudged = {}
      /\ trained = {} /\ givenUp = {}
      /\ dispatcher = "pull" /\ consumed = {} /\ admitted = {}
      /\ \A s \in Samples : task[s] = "none" /\ group[s] = NoGroup
  BY DEF Init, DispatcherInit, TrainerInit, RollouterInit, CoordinatorInit
<1>2. DOMAIN <<>> = {}
  OBVIOUS
<1>3. \A p \in Stages, s \in Samples : ~At(p, s)
  BY <1>1, <1>2 DEF At, Trained, InSeq
<1>4. Early \subseteq Stages /\ "queue" \in Stages
  BY DEF Stages
<1>5. FreshWhileEarly
  BY <1>1, <1>3, <1>4 DEF FreshWhileEarly
<1>6. ConsumedInOrder /\ TrainedInWindow
  BY <1>1, <1>2 DEF ConsumedInOrder, TrainedInWindow, IsMember
<1>7. MarkedOncePublished
  BY <1>1 DEF MarkedOncePublished, IsMember
<1> QED
  BY <1>5, <1>6, <1>7 DEF MembersInv

JobInv == PipelineInv /\ MembersInv

(* Window and pipeline stay together in every reachable state.             *)
THEOREM JobInvariant == Spec => []JobInv
<1>1. Init => MembersInv
  BY InitMembers
<1>2. PipelineInv /\ MembersInv /\ [Next]_vars => MembersInv'
  BY StepKeepsMembers
<1>3. PipelineInv /\ MembersInv => JobInv
  BY DEF JobInv
<1> QED
  BY <1>1, <1>2, <1>3, PipelineInvariant, PTL DEF Spec

(* mark_reward_done and mark_consumed are only called for groups of the    *)
(* current window: neither raises KeyError, however late the dispatcher or *)
(* the trainer comes.                                                      *)
THEOREM MarksAreForMembers == Spec => []MarksAreCurrent
<1>1. JobInv => MarksAreCurrent
  <2> SUFFICES ASSUME JobInv PROVE MarksAreCurrent
    OBVIOUS
  <2>1. ASSUME trainer = "consume", NEW i \in consumedCount + 1 .. Len(batch)
        PROVE  IsMember(batch[i])
    <3>1. batch \in Seq(Samples) /\ consumedCount \in Nat
      BY DEF JobInv, PipelineInv, ComponentsInv, TrainerInv, TrainerData
    <3>2. i \in DOMAIN batch
      BY <3>1, LenProperties
    <3> QED
      BY <3>2 DEF JobInv, MembersInv, ConsumedInOrder
  <2> QED
    BY <2>1 DEF MarksAreCurrent, JobInv, MembersInv, FreshWhileEarly
<1> QED
  BY <1>1, JobInvariant, PTL

-----------------------------------------------------------------------------
(* The job implements OnPolicyWindows: the samples of the window stand for *)
(* its groups, and the trainer's batches for its training.                 *)
Members == {s \in Samples : IsMember(s)}

LEMMA SamplesAreFinite ==
  /\ IsFiniteSet(Samples)
  /\ \A S \in SUBSET Samples : IsFiniteSet(S) /\ Cardinality(S) \in Nat
<1>1. IsFiniteSet(Samples)
  BY RollouterAssumption, FS_Interval DEF Samples
<1> QED
  BY <1>1, FS_Subset, FS_CardinalityType

(* As every member has its sample and no other, the window holds as many   *)
(* samples as the coordinator has given numbers.                           *)
LEMMA MembersAreCounted ==
  ASSUME PipelineInv
  PROVE  IsFiniteSet(Members) /\ Cardinality(Members) = nextIndex
<1> DEFINE f == [s \in Members |-> group[s]]
<1>1. f \in [Members -> admitted]
  BY DEF Members, IsMember
<1>2. \A x, y \in Members : f[x] = f[y] => x = y
  BY MembersDiffer DEF Members
<1>3. \A g \in admitted : \E s \in Members : f[s] = g
  BY DEF PipelineInv, GroupsInv, OneGroupEach, Members, IsMember
<1> HIDE DEF f
<1>4. f \in Bijection(Members, admitted)
  BY <1>1, <1>2, <1>3, Fun_IsBij
<1>5. ExistsBijection(Members, admitted)
  BY <1>4, Fun_ExistsBij
<1>6. IsFiniteSet(Members)
  BY SamplesAreFinite DEF Members
<1> QED
  BY <1>5, <1>6, FS_Bijection DEF PipelineInv, ComponentsInv, CoordinatorIInv,
     MembersAreNumbered

(* What training's variables stand for, and when they stay as they are.    *)
TrainedMembers == {s \in Samples : IsMember(s) /\ <<s, paramVersion>> \in trained}

windowVars == <<paramVersion, group, admitted, rewardDone, trained>>

LEMMA TrainedMember ==
  ASSUME JobInv, NEW s \in Samples, IsMember(s)
  PROVE  <<s, paramVersion>> \in trained <=> Trained(s)
<1>1. group[s][1] = paramVersion
  BY DEF JobInv, PipelineInv, ComponentsInv, CoordinatorIInv,
         MembersAreNumbered, IsMember
<1>2. <<s, paramVersion>> \in trained => Trained(s)
  BY DEF Trained
<1>3. ASSUME Trained(s)  PROVE <<s, paramVersion>> \in trained
  <2>1. PICK e \in trained : e[1] = s
    BY <1>3 DEF Trained
  <2>2. e[2] = paramVersion
    BY <1>1, <2>1 DEF JobInv, MembersInv, TrainedInWindow
  <2>3. e = <<e[1], e[2]>>
    BY DEF JobInv, PipelineInv, ComponentsInv, TrainerInv, TrainerData
  <2> QED
    BY <2>1, <2>2, <2>3
<1> QED
  BY <1>2, <1>3

LEMMA QuietImplements ==
  UNCHANGED windowVars => UNCHANGED Training!vars
BY DEF windowVars, Training!vars, IsMember

LEMMA AdmissionImplements ==
  ASSUME JobInv, NEW s \in Samples, Admit(s)
  PROVE  Training!Join(s)
<1> USE DEF JobInv, PipelineInv, ComponentsInv
<1>1. /\ NextGroupId \in GroupIds /\ NextGroupId \notin IdsUsed
      /\ admitted' = admitted \union {NextGroupId}
      /\ UNCHANGED <<rewardDone, paramVersion>>
      /\ rewardDone \subseteq admitted /\ admitted \subseteq IdsUsed
      /\ nextIndex < TargetGroupCount
  BY AdmissionUsesFreshId DEF Admit, RequestAdmission, CoordinatorIInv,
     CoordinatorTypeOK, MembersAreNumbered, IdsUsed
<1>2. /\ group' = [group EXCEPT ![s] = NextGroupId] /\ trained' = trained
      /\ task[s] = "admission"
  BY DEF Admit, TaskAdmitted, TaskStep, OutsideTasks, trainerVars
<1>3. /\ group'[s] = NextGroupId /\ group[s] = NoGroup
      /\ \A x \in Samples : x # s =>
           group'[x] = group[x] /\ group[x] # NextGroupId
      /\ NextGroupId # NoGroup
  BY <1>1, <1>2, NoGroupIsNoId DEF GroupsInv, GroupData, OneGroupEach
<1>4. <<s, paramVersion>> \notin trained
  <2>1. task[s] # "ok" /\ "trained" \in Stages
    BY <1>2 DEF Stages
  <2>2. ~At("trained", s)
    BY <2>1 DEF PlacesInv, OneStageEach
  <2> QED
    BY <2>2 DEF At, Trained
<1>5. Cardinality(Members) < TargetGroupCount
  BY <1>1, MembersAreCounted
<1>6. /\ s \notin {x \in Samples : group[x] # NoGroup}
      /\ {x \in Samples : group'[x] # NoGroup}
         = {x \in Samples : group[x] # NoGroup} \union {s}
  BY <1>3
<1>7. {x \in Samples : IsMember(x)'} = Members \union {s}
  <2>1. \A x \in Samples : IsMember(x)' <=> IsMember(x) \/ x = s
    BY <1>1, <1>3 DEF IsMember
  <2> QED
    BY <2>1 DEF Members
<1>8. {x \in Samples : group'[x] \in rewardDone'}
      = {x \in Samples : group[x] \in rewardDone}
  <2>1. NextGroupId \notin rewardDone /\ NoGroup \notin rewardDone
    BY <1>1, NoGroupIsNoId DEF CoordinatorIInv, CoordinatorTypeOK
  <2> QED
    BY <1>1, <1>3, <2>1
<1>9. {x \in Samples : IsMember(x)' /\ <<x, paramVersion'>> \in trained'}
      = TrainedMembers
  <2>1. \A x \in Samples : IsMember(x)' <=> IsMember(x) \/ x = s
    BY <1>1, <1>3 DEF IsMember
  <2> QED
    BY <1>1, <1>2, <1>4, <2>1 DEF TrainedMembers
<1> QED
  BY <1>1, <1>5, <1>6, <1>7, <1>8, <1>9
     DEF Training!Join, Members, TrainedMembers, IsMember, Cardinality,
         Training!Cardinality

LEMMA MarkImplements ==
  ASSUME JobInv, DispatcherMarks
  PROVE  payload \in Samples /\ Training!Judge(payload)
<1> USE DEF JobInv, PipelineInv, ComponentsInv
<1>1. /\ payload \in Samples /\ IsMember(payload)
      /\ group[payload] \notin rewardDone
  BY PayloadIsSample DEF DispatcherMarks, MembersInv, FreshWhileEarly
<1>2. /\ rewardDone' = rewardDone \union {group[payload]}
      /\ UNCHANGED <<paramVersion, admitted, group, trained>>
  BY <1>1 DEF DispatcherMarks, MarkRewardDone, OutsideJudging, trainerVars,
     jobVars, sampleVars
<1>3. \A x \in Samples : group[x] = group[payload] <=> x = payload
  BY <1>1, MembersDiffer
<1>4. {x \in Samples : group'[x] \in rewardDone'}
      = {x \in Samples : group[x] \in rewardDone} \union {payload}
  BY <1>1, <1>2, <1>3
<1> QED
  BY <1>1, <1>2, <1>4 DEF Training!Judge, IsMember

LEMMA TrainImplements ==
  ASSUME JobInv, Train, UNCHANGED <<coordinatorVars, group>>
  PROVE  \E B \in SUBSET (Members \ TrainedMembers) : Training!Train(B)
<1> USE DEF JobInv, PipelineInv, ComponentsInv
<1> DEFINE B == {s \in Samples : InSeq(batch, s)}
<1>1. /\ batch \in Seq(Samples) /\ Len(batch) = RequiredSamples
      /\ trainerVersion = paramVersion
      /\ UNCHANGED <<paramVersion, admitted, rewardDone, group>>
      /\ trained' =
           trained \union {<<batch[i], trainerVersion>> : i \in DOMAIN batch}
  BY DEF Train, TrainerInv, TrainerData, BatchFills, VersionsAgree,
         coordinatorVars
<1>2. \A i \in DOMAIN batch : batch[i] \in Samples /\ IsMember(batch[i])
  BY <1>1, LenProperties, ElementOfSeq DEF MembersInv, ConsumedInOrder
<1>3. B # {}
  <2>1. 1 \in DOMAIN batch
    BY <1>1, LenProperties, TrainerNumbers
  <2>2. batch[1] \in B
    BY <1>2, <2>1 DEF InSeq
  <2> QED
    BY <2>2
<1>4. ASSUME NEW s \in B  PROVE IsMember(s) /\ <<s, paramVersion>> \notin trained
  <2>1. IsMember(s)
    BY <1>2 DEF InSeq
  <2>2. At("batch", s) /\ "batch" \in Stages /\ "trained" \in Stages
    BY DEF At, Stages
  <2>3. ~Trained(s)
    BY <2>2 DEF PlacesInv, OneStageEach, At
  <2> QED
    BY <2>1, <2>3 DEF Trained
<1>5. B \in SUBSET (Members \ TrainedMembers)
  BY <1>4 DEF Members, TrainedMembers
<1>6. \A s \in Samples :
        <<s, paramVersion>> \in trained' <=>
          <<s, paramVersion>> \in trained \/ InSeq(batch, s)
  BY <1>1 DEF InSeq
<1>7. \A s \in Samples : IsMember(s)' <=> IsMember(s)
  BY <1>1 DEF IsMember
<1>8. {s \in Samples : IsMember(s)' /\ <<s, paramVersion'>> \in trained'}
      = TrainedMembers \union B
  BY <1>1, <1>4, <1>6, <1>7 DEF TrainedMembers
<1>9. Training!Train(B)
  BY <1>1, <1>3, <1>8 DEF Training!Train, TrainedMembers, IsMember
<1> HIDE DEF B
<1> QED
  BY <1>5, <1>9 DEF Training!Train

LEMMA AdvanceImplements ==
  ASSUME JobInv, AdvanceVersion, trainer = "version",
         UNCHANGED <<group, trained>>
  PROVE  Training!Advance
<1> USE DEF JobInv, PipelineInv, ComponentsInv
<1>1. /\ rewardDone = admitted /\ consumed = admitted
      /\ nextIndex = TargetGroupCount
      /\ admitted' = {} /\ rewardDone' = {} /\ paramVersion' = paramVersion + 1
      /\ batch = <<>> /\ DOMAIN <<>> = {}
  <2>1. ~(nextIndex < TargetGroupCount) /\ nextIndex \in 0 .. TargetGroupCount
    BY DEF AdvanceVersion, ReadyForSync, CoordinatorIInv, CoordinatorTypeOK,
       MembersAreNumbered
  <2>2. nextIndex = TargetGroupCount
    BY <2>1, TargetAssumption
  <2> QED
    BY <2>2 DEF AdvanceVersion, ReadyForSync, CoordinatorIInv,
       SealedAwaitsReward, TrainerInv, BatchFills
<1>2. Cardinality(Members) = TargetGroupCount
  BY <1>1, MembersAreCounted
<1>3. {s \in Samples : group[s] \in rewardDone} = Members
  BY <1>1 DEF Members, IsMember
<1>4. TrainedMembers = Members
  <2>1. \A s \in Samples : IsMember(s) => Trained(s)
    BY <1>1 DEF MembersInv, ConsumedInOrder, IsMember, InSeq
  <2> QED
    BY <2>1, TrainedMember DEF TrainedMembers, Members
<1>5. /\ {s \in Samples : IsMember(s)'} = {}
      /\ {s \in Samples : group'[s] \in rewardDone'} = {}
      /\ {s \in Samples : IsMember(s)' /\ <<s, paramVersion'>> \in trained'}
         = {}
  BY <1>1 DEF IsMember
<1> QED
  BY <1>1, <1>2, <1>3, <1>4, <1>5
     DEF Training!Advance, Members, TrainedMembers, IsMember, Cardinality,
         Training!Cardinality

LEMMA JobStepImplements ==
  JobInv /\ [Next]_vars => [Training!Next]_(Training!vars)
<1> SUFFICES ASSUME JobInv, [Next]_vars
             PROVE  [Training!Next]_(Training!vars)
  OBVIOUS
<1>0. RollouterInv
  BY DEF JobInv, PipelineInv, ComponentsInv
<1>1. ASSUME UNCHANGED windowVars  PROVE [Training!Next]_(Training!vars)
  BY <1>1, QuietImplements
<1>2. CASE UNCHANGED sampleState
  BY <1>1, <1>2 DEF sampleState, trainerVars, coordinatorVars, sampleVars,
                    windowVars
<1>3. ASSUME NEW s \in Samples, TaskGoesOn(s) \/ TaskEnds(s)
      PROVE  UNCHANGED windowVars
  BY <1>3 DEF TaskGoesOn, TaskEnds, trainerVars, coordinatorVars, sampleVars,
              windowVars
<1>4. ASSUME NEW s \in Samples, Admit(s)
      PROVE  [Training!Next]_(Training!vars)
  BY <1>4, AdmissionImplements DEF Training!Next
<1>5. CASE EndIsPut \/ InitialSynchronisation
  BY <1>1, <1>5 DEF EndIsPut, InitialSynchronisation, InitialSync, MoveTo,
     OutsideMain, trainerVars, coordinatorVars, sampleVars, windowVars
<1>6. CASE DispatcherAlone \/ \E w \in Workers : Judge(w)
  BY <1>1, <1>6 DEF DispatcherAlone, Judge, OutsideJudging, trainerVars,
     coordinatorVars, jobVars, sampleVars, windowVars
<1>7. CASE DispatcherMarks
  <2>1. payload \in Samples /\ Training!Judge(payload)
    BY <1>7, MarkImplements
  <2>2. \E s \in Samples : Training!Judge(s)
    BY <2>1 DEF Training!Judge
  <2> QED
    BY <2>2 DEF Training!Next
<1>8. CASE TrainerStep
  <2>1. group' = group
    BY <1>8 DEF TrainerStep, Collect, TrainerConsumes, TrainerAlone, StartSync,
       SyncVersion, TransferWeights, OutsideTrainer, jobVars, sampleVars
  <2>2. \/ Train /\ UNCHANGED coordinatorVars
        \/ AdvanceVersion /\ trainer = "version" /\ UNCHANGED trained
        \/ UNCHANGED <<paramVersion, admitted, rewardDone, trained>>
    BY <1>8 DEF TrainerStep, Collect, CollectSample, CollectEnd,
       TrainerConsumes, ConsumedNext, MarkConsumed, TrainerAlone,
       FinalValidation, FinalWait, StartSync, CallPause, SyncVersion,
       KeepVersion, VersionAdvanced, VersionRefused, TransferWeights,
       SyncWeights, MoveTo, coordinatorVars
  <2>3. CASE Train /\ UNCHANGED coordinatorVars
    <3>1. PICK B \in SUBSET (Members \ TrainedMembers) : Training!Train(B)
      BY <2>1, <2>3, TrainImplements
    <3> QED
      BY <3>1 DEF Training!Next, Members, TrainedMembers
  <2>4. CASE AdvanceVersion /\ trainer = "version" /\ UNCHANGED trained
    BY <2>1, <2>4, AdvanceImplements DEF Training!Next
  <2>5. CASE UNCHANGED <<paramVersion, admitted, rewardDone, trained>>
    BY <1>1, <2>1, <2>5 DEF windowVars
  <2> QED
    BY <2>2, <2>3, <2>4, <2>5
<1> QED
  BY <1>0, <1>1, <1>2, <1>3, <1>4, <1>5, <1>6, <1>7, <1>8, JobSteps

(* Every run of the job is a behaviour of OnPolicyWindows with the samples *)
(* for groups: the version advances only when the optimizer has stepped on *)
(* every sample of a full window, each judged, and no sample is trained on *)
(* twice or outside its window, whatever the sizes.                        *)
THEOREM JobImplementsOnPolicyWindows == Spec => ImplementsOnPolicyWindows
<1>1. Init => Training!Init
  BY DEF Init, RollouterInit, TrainerInit, CoordinatorInit, Training!Init,
         IsMember
<1>2. JobInv /\ [Next]_vars => [Training!Next]_(Training!vars)
  BY JobStepImplements
<1> QED
  BY <1>1, <1>2, JobInvariant, PTL
     DEF Spec, ImplementsOnPolicyWindows, Training!Spec

-----------------------------------------------------------------------------
(* The quota.  ropd.yaml ties the window to the rollout quota: with a      *)
(* staleness_threshold of 0 the rollouter submits no more samples per      *)
(* version than the window admits.                                         *)
Tied == MaxRequiredSamples <= TargetGroupCount

(* The samples the rollouter has taken that no window has admitted yet.    *)
Waiting == {s \in Samples : task[s] = "admission" \/ s = hand}

Quota ==
  /\ staleness <= MaxRequiredSamples
  /\ processor = "take" => staleness < MaxRequiredSamples
  /\ nextIndex + Cardinality(Waiting) <= staleness

(* The version has advanced and staleness_samples is not reset yet.        *)
Emptied ==
  /\ nextIndex = 0 /\ Waiting = {} /\ active = {}
  /\ staleness = MaxRequiredSamples

(* What is submitted after pause() has cleared active_tasks is either not  *)
(* admitted, or keeps the window from being ready; so once the version has *)
(* advanced nothing is active, and the reset is to zero.                   *)
SyncEmpties ==
  /\ trainer = "version" /\ remote \in {"cleared", "paused"} =>
       \A s \in active :
         task[s] = "admission" \/ (IsMember(s) /\ group[s] \notin consumed)
  /\ trainer = "weights" \/ remote \in {"update", "updating"} => Emptied
  /\ remote = "updating" => resetTo = 0

(* No task has timed out, and the window's samples are begun with its      *)
(* weights.                                                                *)
BegunInWindow ==
  /\ \A s \in Samples : task[s] = "failed" => group[s] # NoGroup
  /\ \A s \in Samples : IsMember(s) => madeWith[s] = {paramVersion}

QuotaInv == ~finishing => Quota /\ SyncEmpties /\ BegunInWindow

LEMMA QuotaNumbers ==
  /\ MaxRequiredSamples \in Nat /\ MaxRequiredSamples # 0
  /\ TargetGroupCount \in Nat
  /\ IsFiniteSet(Waiting) /\ Cardinality(Waiting) \in Nat
  /\ CoordinatorIInv => nextIndex \in Nat
  /\ RollouterInv => staleness \in Nat
BY RollouterAssumption, TargetAssumption, SamplesAreFinite
   DEF Waiting, CoordinatorIInv, CoordinatorTypeOK, RollouterInv, RollouterData

LEMMA SomeWaiting ==
  ASSUME NEW s \in Samples, task[s] = "admission" \/ s = hand
  PROVE  s \in Waiting /\ Cardinality(Waiting) # 0
BY QuotaNumbers, FS_EmptySet DEF Waiting

(* A sample that waits for admission finds room.                           *)
LEMMA WaitingFindsRoom ==
  ASSUME Tied, ComponentsInv, Quota, NEW s \in Waiting
  PROVE  nextIndex < TargetGroupCount /\ windowState = "OPEN"
<1> USE DEF ComponentsInv
<1>1. Cardinality(Waiting) # 0
  BY SomeWaiting DEF Waiting
<1>2. nextIndex < TargetGroupCount
  BY <1>1, QuotaNumbers DEF Quota, Tied
<1> QED
  BY <1>2 DEF CoordinatorIInv, MembersAreNumbered

(* What a step of the rollouter alone does to the quota.                   *)
TakesOne ==
  /\ processor = "take" /\ processor' # "take"
  /\ staleness' = staleness + 1
  /\ hand' = hand \/ hand' \in Samples
  /\ UNCHANGED <<task, active, remote, resetTo>>

SubmitsOne ==
  /\ hand \in Samples /\ hand' = NoSample
  /\ task' = [task EXCEPT ![hand] = "admission"]
  /\ active' = active \union {hand}
  /\ processor' # "take"
  /\ UNCHANGED <<staleness, remote, resetTo>>

RemoteGoesOn ==
  \/ UNCHANGED <<remote, resetTo>>
  \/ remote' \in {"pausing", "validating", "resume", "none"}
  \/ remote' = "cleared" /\ active' = {}
  \/ remote = "cleared" /\ remote' = "paused"
  \/ remote = "update" /\ remote' = "updating" /\ resetTo' = Cardinality(active)

KeepsQuotas ==
  /\ UNCHANGED <<task, hand, staleness>>
  /\ active' \subseteq active
  /\ processor' = "take" => processor = "take" \/ staleness < MaxRequiredSamples
  /\ RemoteGoesOn

LEMMA RollouterQuotaSteps ==
  ASSUME RollouterInv, RollouterAlone
  PROVE  TakesOne \/ SubmitsOne \/ KeepsQuotas \/ UpdateResetsStaleness
<1> USE DEF RollouterInv, RollouterData, processorVars, sampleTasks, otherVars,
            GoesOn, WaitsNow
<1>1. CASE Feed \/ LockStep
  BY <1>1 DEF Feed, LockStep, WaitForLock, KeepsQuotas, RemoteGoesOn
<1>2. CASE CheckPause
  BY <1>2, QuotaNumbers DEF CheckPause, ShouldPause, KeepsQuotas, RemoteGoesOn
<1>3. CASE SetPaused
  BY <1>3, ReapTypes DEF SetPaused, ReapOrGoOn, AfterReap, ReapLoop,
                         KeepsQuotas, RemoteGoesOn
<1>4. CASE Sleep \/ WaitForSample
  BY <1>4 DEF Sleep, WaitForSample, KeepsQuotas, RemoteGoesOn
<1>5. CASE Take
  <2>1. taken < SampleCount => taken + 1 \in Samples
    BY CountsAreNaturals
  <2> QED
    BY <1>5, <2>1 DEF Take, ReapOrGoOn, AfterReap, TakesOne
<1>6. CASE Submit
  <2>1. hand \in Samples
    BY <1>6 DEF Submit, HandHeld, HoldsHand
  <2> QED
    BY <1>6, <2>1 DEF Submit, SubmitsOne, KeepsQuotas, RemoteGoesOn
<1>7. ASSUME NEW l \in ReapLoop, ReapWait(l) \/ ReapNoTasks(l) \/ Reap(l)
      PROVE  KeepsQuotas
  BY <1>7 DEF ReapWait, ReapNoTasks, Reap, ReapOrGoOn, AfterReap, ReapLoop,
              KeepsQuotas, RemoteGoesOn
<1>8. CASE MonitorStep \/ RemoteStep
  <2>1. NotifyAll \/ NotifyNobody => (processor' = "take" => processor = "take")
    BY DEF NotifyAll, NotifyNobody, WokenAs
  <2>2. CASE MonitorStep
    BY <2>1, <2>2 DEF MonitorStep, MonitorTurn, MonitorCheck, MonitorResume,
       MonitorOnly, LiftPause, LeavePause, NotifyNobody, KeepsQuotas,
       RemoteGoesOn
  <2>3. CASE PauseStarts \/ PauseClears \/ PauseReturns
    BY <2>3 DEF PauseStarts, PauseClears, PauseReturns, RemoteOnly,
       KeepsQuotas, RemoteGoesOn
  <2>4. CASE UpdateStarts \/ UpdateReturns \/ Resume
    BY <2>1, <2>4 DEF UpdateStarts, UpdateReturns, Resume, RemoteOnly,
       KeepsQuotas, RemoteGoesOn
  <2> QED
    BY <1>8, <2>2, <2>3, <2>4 DEF RemoteStep
<1> QED
  BY <1>1, <1>2, <1>3, <1>4, <1>5, <1>6, <1>7, <1>8
     DEF RollouterAlone, ProcessorStep

LEMMA RollouterKeepsQuota ==
  ASSUME Tied, ComponentsInv, QuotaInv, RollouterAlone
  PROVE  QuotaInv'
<1> SUFFICES ASSUME ~finishing
             PROVE  (Quota /\ SyncEmpties /\ BegunInWindow)'
  BY DEF QuotaInv, RollouterAlone, trainerVars
<1> USE QuotaNumbers DEF ComponentsInv
<1>0. Quota /\ SyncEmpties /\ BegunInWindow
  BY DEF QuotaInv
<1>1. /\ UNCHANGED <<trainer, finishing, paramVersion, nextIndex, admitted,
                     consumed, group, madeWith>>
      /\ task \in [Samples -> TaskState]
  BY DEF RollouterAlone, trainerVars, coordinatorVars, jobVars, sampleVars,
         RollouterInv, RollouterData
<1>2. \A s : (IsMember(s)' <=> IsMember(s))
  BY <1>1 DEF IsMember
<1>3. trainer = "weights" => remote = "paused"
  BY DEF TrainerInv, RemoteFollows
<1>4. CASE TakesOne
  <2>1. hand = NoSample
    BY <1>4 DEF TakesOne, RollouterInv, HandHeld, HoldsHand
  <2>2. /\ Waiting' \subseteq Waiting \union {hand'}
        /\ IsFiniteSet(Waiting') /\ Cardinality(Waiting') \in Nat
        /\ Cardinality(Waiting') <= Cardinality(Waiting) + 1
    <3>1. Waiting' \subseteq Waiting \union {hand'}
      BY <1>4 DEF TakesOne, Waiting
    <3>2. /\ IsFiniteSet(Waiting \union {hand'})
          /\ Cardinality(Waiting \union {hand'}) <= Cardinality(Waiting) + 1
      BY FS_AddElement
    <3> QED
      BY <3>1, <3>2, FS_Subset, FS_CardinalityType
  <2>3. Quota'
    BY <1>0, <1>1, <1>4, <2>2 DEF Quota, TakesOne
  <2>4. ~Emptied
    BY <1>0, <1>4 DEF TakesOne, Quota, Emptied
  <2>5. SyncEmpties'
    BY <1>0, <1>1, <1>2, <1>4, <2>4 DEF SyncEmpties, TakesOne
  <2>6. BegunInWindow'
    BY <1>0, <1>1, <1>2, <1>4 DEF BegunInWindow, TakesOne
  <2> QED
    BY <2>3, <2>5, <2>6
<1>5. CASE SubmitsOne
  <2>0. /\ task'[hand] = "admission" /\ hand \in Samples
        /\ \A s \in Samples : s # hand => task'[s] = task[s]
        /\ NoSample \notin Samples
    BY <1>1, <1>5, CountsAreNaturals DEF SubmitsOne, RollouterInv
  <2>1. Waiting' = Waiting
    BY <1>5, <2>0 DEF SubmitsOne, Waiting
  <2>2. Quota'
    BY <1>0, <1>1, <1>5, <2>1 DEF Quota, SubmitsOne
  <2>3. ~Emptied
    BY <2>0, SomeWaiting DEF Emptied
  <2>4. SyncEmpties'
    BY <1>0, <1>1, <1>2, <1>5, <2>0, <2>3 DEF SyncEmpties, SubmitsOne
  <2>5. BegunInWindow'
    BY <1>0, <1>1, <1>2, <2>0 DEF BegunInWindow
  <2> QED
    BY <2>2, <2>4, <2>5
<1>6. CASE KeepsQuotas
  <2>1. Waiting' = Waiting
    BY <1>6 DEF KeepsQuotas, Waiting
  <2>2. Quota'
    BY <1>0, <1>1, <1>6, <2>1 DEF Quota, KeepsQuotas
  <2>3. Emptied => Emptied' /\ Cardinality(active) = 0
    BY <1>1, <1>6, <2>1, FS_EmptySet DEF Emptied, KeepsQuotas
  <2>4. SyncEmpties'
    BY <1>0, <1>1, <1>2, <1>3, <1>6, <2>3
       DEF SyncEmpties, KeepsQuotas, RemoteGoesOn
  <2>5. BegunInWindow'
    BY <1>0, <1>1, <1>2, <1>6 DEF BegunInWindow, KeepsQuotas
  <2> QED
    BY <2>2, <2>4, <2>5
<1>7. CASE UpdateResetsStaleness
  <2>1. /\ remote = "updating" /\ remote' = "validating" /\ staleness' = resetTo
        /\ UNCHANGED <<hand, task, active, processor>>
    BY <1>7 DEF UpdateResetsStaleness, RemoteOnly
  <2>2. Waiting' = Waiting
    BY <2>1 DEF Waiting
  <2>3. Emptied /\ resetTo = 0
    BY <1>0, <2>1 DEF SyncEmpties
  <2>4. Quota'
    BY <1>0, <1>1, <2>1, <2>2, <2>3, FS_EmptySet DEF Quota, Emptied
  <2>5. SyncEmpties' /\ BegunInWindow'
    BY <1>0, <1>1, <1>2, <1>3, <2>1 DEF SyncEmpties, BegunInWindow
  <2> QED
    BY <2>4, <2>5
<1> QED
  BY <1>4, <1>5, <1>6, <1>7, RollouterQuotaSteps

(* A step that leaves tasks, rollouter, trainer and members alone.         *)
LEMMA OthersKeepQuota ==
  ASSUME QuotaInv, finishing => finishing',
         UNCHANGED <<staleness, hand, task, active, remote, resetTo, nextIndex,
                     paramVersion, admitted, consumed, group, madeWith>>,
         processor' = "take" => processor = "take",
         trainer' = trainer \/ trainer' \notin {"version", "weights"}
  PROVE  QuotaInv'
<1>1. Waiting' = Waiting
  BY DEF Waiting
<1>2. \A s : (IsMember(s)' <=> IsMember(s))
  BY DEF IsMember
<1>3. Quota => Quota'
  BY <1>1 DEF Quota
<1>4. SyncEmpties => SyncEmpties'
  BY <1>1, <1>2 DEF SyncEmpties, Emptied
<1>5. BegunInWindow => BegunInWindow'
  BY <1>2 DEF BegunInWindow
<1> QED
  BY <1>3, <1>4, <1>5 DEF QuotaInv

LEMMA AdmitsWhileRunning ==
  ASSUME RollouterInv, [Next]_vars, NEW s \in Samples, Admit(s)
  PROVE  Running
<1>1. task' # task
  BY DEF Admit, TaskAdmitted, TaskStep, RollouterInv, RollouterData
<1>2. ~InitialSynchronisation
  BY <1>1 DEF InitialSynchronisation, OutsideMain, rollouterVars, sampleTasks
<1> QED
  BY <1>1, <1>2 DEF Next, vars, rollouterVars, sampleTasks

(* Admission takes a sample from those that wait to the members.           *)
LEMMA AdmissionMovesOne ==
  ASSUME JobInv, NEW s \in Samples, Admit(s)
  PROVE  /\ Waiting # {} /\ Waiting' = Waiting \ {s}
         /\ Cardinality(Waiting') = Cardinality(Waiting) - 1
         /\ nextIndex' = nextIndex + 1
<1> USE QuotaNumbers DEF JobInv, PipelineInv, ComponentsInv
<1>1. /\ task[s] = "admission" /\ task' = [task EXCEPT ![s] = "generating"]
      /\ hand' = hand /\ nextIndex' = nextIndex + 1
  BY DEF Admit, TaskAdmitted, TaskStep, processorVars, RequestAdmission
<1>2. /\ task'[s] = "generating" /\ s # hand
      /\ \A x \in Samples : x # s => task'[x] = task[x]
  BY <1>1 DEF RollouterInv, RollouterData, TakenInOrder
<1>3. s \in Waiting
  BY <1>1 DEF Waiting
<1>4. Waiting' = Waiting \ {s}
  BY <1>1, <1>2 DEF Waiting
<1> QED
  BY <1>1, <1>3, <1>4, FS_RemoveElement

LEMMA AdmissionKeepsQuota ==
  ASSUME Tied, JobInv, QuotaInv, NEW s \in Samples, Admit(s), Running
  PROVE  QuotaInv'
<1> SUFFICES ASSUME ~finishing
             PROVE  (Quota /\ SyncEmpties /\ BegunInWindow)'
  BY DEF QuotaInv, Admit, OutsideTasks, trainerVars
<1> USE QuotaNumbers DEF JobInv, PipelineInv, ComponentsInv
<1>0. Quota /\ SyncEmpties /\ BegunInWindow
  BY DEF QuotaInv
<1>1. /\ NextGroupId \in GroupIds /\ NextGroupId \notin IdsUsed
      /\ admitted' = admitted \union {NextGroupId}
      /\ nextIndex' = nextIndex + 1
      /\ consumed \subseteq admitted /\ admitted \subseteq IdsUsed
      /\ UNCHANGED <<consumed, paramVersion>>
  BY AdmissionUsesFreshId DEF Admit, RequestAdmission, CoordinatorIInv,
     CoordinatorTypeOK, IdsUsed
<1>2. /\ group' = [group EXCEPT ![s] = NextGroupId]
      /\ madeWith' = [madeWith EXCEPT ![s] = {weights}]
      /\ task[s] = "admission" /\ task' = [task EXCEPT ![s] = "generating"]
      /\ UNCHANGED <<trainer, finishing, hand, processor, active, staleness,
                     remote, resetTo>>
  BY DEF Admit, TaskAdmitted, TaskStep, OutsideTasks, trainerVars,
         processorVars, otherVars
<1>3. /\ group'[s] = NextGroupId /\ madeWith'[s] = {weights}
      /\ task'[s] = "generating" /\ s # hand
      /\ \A x \in Samples : x # s =>
           /\ group'[x] = group[x] /\ task'[x] = task[x]
           /\ madeWith'[x] = madeWith[x] /\ group[x] # NextGroupId
      /\ NextGroupId # NoGroup
  BY <1>1, <1>2, NoGroupIsNoId DEF GroupsInv, GroupData, OneGroupEach,
     RollouterInv, RollouterData, TakenInOrder
<1>4. Waiting # {} /\ Cardinality(Waiting') = Cardinality(Waiting) - 1
  BY AdmissionMovesOne
<1>5. Quota'
  BY <1>0, <1>1, <1>2, <1>4 DEF Quota
<1>6. ~Emptied
  BY <1>4 DEF Emptied
<1>7. \A x \in Samples : IsMember(x)' <=> IsMember(x) \/ x = s
  BY <1>1, <1>3 DEF IsMember
<1>8. SyncEmpties'
  <2>1. NextGroupId \notin consumed
    BY <1>1
  <2>2. active \subseteq Samples
    BY DEF RollouterInv, RollouterData
  <2> QED
    BY <1>0, <1>1, <1>2, <1>3, <1>6, <1>7, <2>1, <2>2 DEF SyncEmpties
<1>9. weights = paramVersion
  <2>1. trainer # "weights"
    BY <1>0, <1>6 DEF SyncEmpties
  <2> QED
    BY <2>1 DEF Running, TrainerInv, TrainerData, VersionsAgree
<1>10. BegunInWindow'
  BY <1>0, <1>1, <1>3, <1>7, <1>9 DEF BegunInWindow
<1> QED
  BY <1>5, <1>8, <1>10

(* A task that goes on keeps the quota: none times out waiting for its     *)
(* admission, and one that fails later has its group.                      *)
LEMMA TaskKeepsQuota ==
  ASSUME JobInv, QuotaInv, NEW s \in Samples,
         NEW to \in {"enqueue", "failed", "ok"},
         task[s] \in {"generating", "enqueue"},
         task' = [task EXCEPT ![s] = to],
         UNCHANGED <<staleness, hand, processor, active, remote, resetTo,
                     trainer, finishing, nextIndex, paramVersion, admitted,
                     consumed, group, madeWith>>
  PROVE  QuotaInv'
<1> USE DEF JobInv, PipelineInv, ComponentsInv
<1>1. /\ task'[s] = to
      /\ \A x \in Samples : x # s => task'[x] = task[x]
  BY DEF RollouterInv, RollouterData
<1>2. Waiting' = Waiting
  BY <1>1 DEF Waiting
<1>3. \A x : IsMember(x)' <=> IsMember(x)
  BY DEF IsMember
<1>4. Quota => Quota'
  BY <1>2 DEF Quota
<1>5. SyncEmpties => SyncEmpties'
  <2>1. active \subseteq Samples
    BY DEF RollouterInv, RollouterData
  <2> QED
    BY <1>1, <1>2, <1>3, <2>1 DEF SyncEmpties, Emptied
<1>6. group[s] # NoGroup
  BY DEF GroupsInv, OneGroupEach
<1>7. BegunInWindow => BegunInWindow'
  BY <1>1, <1>3, <1>6 DEF BegunInWindow
<1> QED
  BY <1>4, <1>5, <1>7 DEF QuotaInv

LEMMA TasksKeepQuota ==
  ASSUME Tied, JobInv, QuotaInv, NEW s \in Samples,
         \/ AdmissionTimesOut(s) \/ Generated(s) \/ GenerationFails(s)
         \/ EnqueueRaw(s)
  PROVE  QuotaInv'
<1> DEFINE Rest ==
      UNCHANGED <<staleness, hand, processor, active, remote, resetTo, trainer,
                  finishing, nextIndex, paramVersion, admitted, consumed, group,
                  madeWith>>
<1>1. CASE AdmissionTimesOut(s)
  <2>1. task[s] = "admission" /\ windowState # "OPEN" /\ finishing' = finishing
    BY <1>1 DEF AdmissionTimesOut, TaskAdmissionTimesOut, TaskStep,
                OutsideTasks, trainerVars
  <2>2. s \in Waiting
    BY <2>1 DEF Waiting
  <2>3. finishing
    BY <2>1, <2>2, WaitingFindsRoom DEF QuotaInv, JobInv, PipelineInv
  <2> QED
    BY <2>1, <2>3 DEF QuotaInv
<1>2. CASE Generated(s) \/ GenerationFails(s) \/ EnqueueRaw(s)
  <2>1. Rest
    BY <1>2 DEF Generated, GenerationFails, EnqueueRaw, TaskGenerated,
       TaskGenerationFails, TaskEnqueued, TaskStoppedEnqueuing, TaskStep,
       OutsideTasks, processorVars, otherVars, trainerVars, coordinatorVars,
       jobVars, sampleVars
  <2>2. \E to \in {"enqueue", "failed", "ok"} :
          task' = [task EXCEPT ![s] = to]
    BY <1>2 DEF Generated, GenerationFails, EnqueueRaw, TaskGenerated,
       TaskGenerationFails, TaskEnqueued, TaskStoppedEnqueuing, TaskStep
  <2>3. task[s] \in {"generating", "enqueue"}
    BY <1>2 DEF Generated, GenerationFails, EnqueueRaw, TaskGenerated,
       TaskGenerationFails, TaskEnqueued, TaskStoppedEnqueuing, TaskStep
  <2>4. PICK to \in {"enqueue", "failed", "ok"} : task' = [task EXCEPT ![s] = to]
    BY <2>2
  <2> HIDE DEF Rest
  <2>5. Rest => UNCHANGED <<staleness, hand, processor, active, remote, resetTo,
                  trainer, finishing, nextIndex, paramVersion, admitted,
                  consumed, group, madeWith>>
    BY DEF Rest
  <2> QED
    BY <2>1, <2>3, <2>4, <2>5, TaskKeepsQuota
<1> QED
  BY <1>1, <1>2

(* The version advances off a full window: by the tie the quota is used    *)
(* up, so no sample waits and none is active.                              *)
LEMMA AdvanceEmpties ==
  ASSUME Tied, JobInv, Quota, SyncEmpties, AdvanceVersion, trainer = "version",
         remote = "paused", UNCHANGED <<task, hand, active, staleness>>
  PROVE  Emptied'
<1> USE QuotaNumbers DEF JobInv, PipelineInv, ComponentsInv
<1>1. consumed = admitted /\ nextIndex' = 0 /\ ~(nextIndex < TargetGroupCount)
  BY DEF AdvanceVersion, ReadyForSync, CoordinatorIInv, MembersAreNumbered
<1>2. Cardinality(Waiting) = 0 /\ staleness = MaxRequiredSamples
  BY <1>1 DEF Quota, Tied
<1>3. Waiting = {}
  BY <1>2, FS_EmptySet
<1>4. Waiting' = Waiting
  BY DEF Waiting
<1>5. active = {}
  <2>1. active \subseteq Samples
    BY DEF RollouterInv, RollouterData
  <2>2. \A s \in active : task[s] = "admission"
    BY <1>1 DEF SyncEmpties, IsMember
  <2> QED
    BY <1>3, <2>1, <2>2 DEF Waiting
<1> QED
  BY <1>1, <1>2, <1>3, <1>4, <1>5 DEF Emptied

LEMMA SyncKeepsQuota ==
  ASSUME Tied, JobInv, QuotaInv, SyncVersion
  PROVE  QuotaInv'
<1> USE DEF JobInv, PipelineInv, ComponentsInv
<1>1. /\ UNCHANGED <<staleness, hand, processor, task, active, remote, resetTo,
                     finishing, group, madeWith>>
      /\ trainer = "version" /\ remote = "paused"
  BY DEF SyncVersion, KeepVersion, VersionAdvanced, VersionRefused, MoveTo,
         OutsideTrainer, rollouterVars, processorVars, sampleTasks, otherVars,
         jobVars, sampleVars
<1>2. CASE KeepVersion /\ VersionIsCurrent(paramVersion)
  <2>1. finishing
    BY <1>1, <1>2, TrainerNumbers DEF VersionIsCurrent, TrainerInv, TrainerData,
       VersionsAgree
  <2> QED
    BY <1>1, <2>1 DEF QuotaInv
<1>3. CASE UNCHANGED coordinatorVars /\ VersionRefused(paramVersion, ReadyForSync)
  <2>1. trainer' = "failed"
    BY <1>3 DEF VersionRefused, MoveTo
  <2> QED
    BY <1>1, <1>3, <2>1, OthersKeepQuota DEF coordinatorVars
<1>4. CASE AdvanceVersion
  <2> SUFFICES ASSUME ~finishing
               PROVE  (Quota /\ SyncEmpties /\ BegunInWindow)'
    BY <1>1 DEF QuotaInv
  <2>0. Quota /\ SyncEmpties /\ BegunInWindow
    BY DEF QuotaInv
  <2>1. Emptied'
    BY <1>1, <1>4, <2>0, AdvanceEmpties
  <2>2. admitted' = {} /\ nextIndex' = 0
    BY <1>4 DEF AdvanceVersion
  <2>3. trainer' \in {"weights", "failed"}
    BY <1>1, <1>4 DEF SyncVersion, KeepVersion, VersionAdvanced, VersionRefused,
                      MoveTo
  <2>4. Quota'
    BY <1>1, <2>0, <2>1, FS_EmptySet, QuotaNumbers DEF Quota, Emptied
  <2>5. SyncEmpties'
    BY <1>1, <2>1, <2>3 DEF SyncEmpties
  <2>6. BegunInWindow'
    BY <1>1, <2>0, <2>2 DEF BegunInWindow, IsMember
  <2> QED
    BY <2>4, <2>5, <2>6
<1> QED
  BY <1>2, <1>3, <1>4 DEF SyncVersion

LEMMA TransferKeepsQuota ==
  ASSUME JobInv, QuotaInv, TransferWeights
  PROVE  QuotaInv'
<1> USE DEF JobInv, PipelineInv, ComponentsInv
<1> SUFFICES ASSUME ~finishing
             PROVE  (Quota /\ SyncEmpties /\ BegunInWindow)'
  BY DEF QuotaInv, TransferWeights, SyncWeights
<1>1. /\ UNCHANGED <<staleness, hand, processor, task, active, resetTo,
                     nextIndex, paramVersion, admitted, consumed, group>>
      /\ trainer = "weights" /\ trainer' = "collect" /\ remote' = "update"
  BY DEF TransferWeights, SyncWeights, CallRemote, processorVars, sampleTasks,
         coordinatorVars
<1>2. Quota /\ SyncEmpties /\ BegunInWindow /\ Emptied
  BY <1>1 DEF QuotaInv, SyncEmpties
<1>3. Waiting' = Waiting
  BY <1>1 DEF Waiting
<1>4. \A x : IsMember(x)' <=> IsMember(x)
  BY <1>1 DEF IsMember
<1>5. \A s \in Samples : ~IsMember(s)
  <2>1. admitted = {}
    BY <1>2, FS_EmptySet DEF Emptied, CoordinatorIInv, MembersAreNumbered
  <2> QED
    BY <2>1 DEF IsMember
<1>6. Quota' /\ Emptied'
  BY <1>1, <1>2, <1>3 DEF Quota, Emptied
<1>7. SyncEmpties'
  BY <1>1, <1>6 DEF SyncEmpties
<1>8. BegunInWindow'
  BY <1>1, <1>2, <1>4, <1>5 DEF BegunInWindow
<1> QED
  BY <1>6, <1>7, <1>8

LEMMA StepKeepsQuota ==
  ASSUME Tied
  PROVE  JobInv /\ QuotaInv /\ [Next]_vars => QuotaInv'
<1> SUFFICES ASSUME JobInv, QuotaInv, [Next]_vars PROVE QuotaInv'
  OBVIOUS
<1>0. ComponentsInv /\ RollouterInv
  BY DEF JobInv, PipelineInv, ComponentsInv
<1> DEFINE Rest ==
      UNCHANGED <<staleness, hand, task, active, remote, resetTo, nextIndex,
                  paramVersion, admitted, consumed, group, madeWith>>
<1>1. ASSUME Rest, UNCHANGED <<processor, trainerVars>>  PROVE QuotaInv'
  BY <1>1, OthersKeepQuota DEF trainerVars
<1>2. CASE RollouterAlone
  BY <1>0, <1>2, RollouterKeepsQuota
<1>3. ASSUME NEW s \in Samples, Admit(s)  PROVE QuotaInv'
  BY <1>0, <1>3, AdmitsWhileRunning, AdmissionKeepsQuota
<1>4. ASSUME NEW s \in Samples,
             \/ AdmissionTimesOut(s) \/ Generated(s) \/ GenerationFails(s)
             \/ EnqueueRaw(s)
      PROVE  QuotaInv'
  BY <1>4, TasksKeepQuota
<1>5. CASE EndGeneration \/ RollouterStops
  <2>1. /\ Rest /\ UNCHANGED trainerVars
        /\ processor' = processor \/ processor' = "ended"
    BY <1>5 DEF EndGeneration, RollouterStops, ProcessorEnds, StopRunning,
       OutsideTasks, processorVars, sampleTasks, otherVars, coordinatorVars,
       jobVars, sampleVars
  <2> QED
    BY <2>1, OthersKeepQuota DEF trainerVars
<1>6. CASE \/ \E w \in Workers : Judge(w)
           \/ DispatcherStep
  <2>1. Rest /\ UNCHANGED <<processor, trainerVars>>
    BY <1>6 DEF Judge, DispatcherStep, DispatcherAlone, DispatcherMarks,
       MarkRewardDone, OutsideJudging, rollouterVars, processorVars,
       sampleTasks, otherVars, coordinatorVars, jobVars, sampleVars
  <2> QED
    BY <1>1, <2>1
<1>7. CASE Collect \/ TrainerAlone \/ InitialSynchronisation \/ MainStep
  <2>1. Rest /\ processor' = processor /\ (finishing => finishing')
        /\ (trainer' = trainer \/ trainer' \notin {"version", "weights"})
    BY <1>7 DEF Collect, CollectSample, CollectEnd, TrainerAlone, Train,
       FinalValidation, FinalWait, MoveTo, InitialSynchronisation, InitialSync,
       MainStep, OutsideMain, OutsideTrainer, rollouterVars, processorVars,
       sampleTasks, otherVars, coordinatorVars, jobVars, sampleVars, trainerVars
  <2> QED
    BY <2>1, OthersKeepQuota
<1>8. CASE TrainerConsumes
  <2>1. /\ UNCHANGED <<staleness, hand, task, active, remote, resetTo,
                       nextIndex, paramVersion, admitted, group, madeWith,
                       processor, finishing>>
        /\ trainer = "consume" /\ trainer' \in {"failed", "train", "consume"}
    BY <1>8 DEF TrainerConsumes, ConsumedNext, MarkConsumed, OutsideTrainer,
       rollouterVars, processorVars, sampleTasks, otherVars, coordinatorVars,
       jobVars, sampleVars
  <2>2. Waiting' = Waiting /\ \A x : IsMember(x)' <=> IsMember(x)
    BY <2>1 DEF Waiting, IsMember
  <2> QED
    BY <2>1, <2>2 DEF QuotaInv, Quota, SyncEmpties, Emptied, BegunInWindow
<1>9. CASE StartSync
  <2>1. /\ UNCHANGED <<staleness, hand, task, active, resetTo, nextIndex,
                       paramVersion, admitted, group, madeWith, processor,
                       finishing>>
        /\ trainer' = "version" /\ remote' = "pause"
    BY <1>9 DEF StartSync, CallPause, CallRemote, MoveTo, OutsideTrainer,
       processorVars, sampleTasks, coordinatorVars, jobVars, sampleVars
  <2>2. Waiting' = Waiting /\ \A x : IsMember(x)' <=> IsMember(x)
    BY <2>1 DEF Waiting, IsMember
  <2> QED
    BY <2>1, <2>2 DEF QuotaInv, Quota, SyncEmpties, BegunInWindow
<1>10. CASE UNCHANGED vars
  BY <1>1, <1>10 DEF vars, rollouterVars, processorVars, sampleTasks, otherVars,
     coordinatorVars, jobVars, sampleVars
<1> QED
  BY <1>2, <1>3, <1>4, <1>5, <1>6, <1>7, <1>8, <1>9, <1>10, SyncKeepsQuota,
     TransferKeepsQuota DEF Next, TaskProgress, TrainerStep

LEMMA InitQuota == Init => QuotaInv
<1> SUFFICES ASSUME Init PROVE QuotaInv
  OBVIOUS
<1>1. /\ staleness = 0 /\ processor = "loop" /\ hand = NoSample
      /\ nextIndex = 0 /\ admitted = {} /\ trainer = "initialSync"
      /\ remote = "none"
      /\ \A s \in Samples : task[s] = "none"
  BY DEF Init, RollouterInit, TrainerInit, CoordinatorInit
<1>2. Waiting = {}
  BY <1>1, RollouterAssumption DEF Waiting, Samples, NoSample
<1>3. Quota
  BY <1>1, <1>2, FS_EmptySet, QuotaNumbers DEF Quota
<1>4. SyncEmpties /\ BegunInWindow
  BY <1>1 DEF SyncEmpties, BegunInWindow, IsMember
<1> QED
  BY <1>3, <1>4 DEF QuotaInv

(* The quota holds in every reachable state, if the window is not smaller. *)
THEOREM QuotaInvariant ==
  ASSUME Tied
  PROVE  Spec => []QuotaInv
BY InitQuota, StepKeepsQuota, JobInvariant, PTL DEF Spec

-----------------------------------------------------------------------------
(* Strict on-policy training.  What is trained on was begun and finished   *)
(* in its own window, and no later transfer reaches it.                    *)
LEMMA TrainedTypes ==
  ASSUME JobInv, NEW e \in trained
  PROVE  e[1] \in Samples /\ task[e[1]] = "ok" /\ Trained(e[1])
<1>1. e[1] \in Samples
  BY DEF JobInv, PipelineInv, ComponentsInv, TrainerInv, TrainerData
<1>2. Trained(e[1])
  BY DEF Trained
<1>3. At("trained", e[1]) /\ "trained" \in Stages
  BY <1>2 DEF At, Stages
<1> QED
  BY <1>1, <1>2, <1>3 DEF JobInv, PipelineInv, PlacesInv, OneStageEach

LEMMA TrainKeepsOnPolicy ==
  ASSUME JobInv, QuotaInv, StrictOnPolicy, Train, UNCHANGED madeWith
  PROVE  StrictOnPolicy'
<1>1. trainer = "train" /\ ~finishing /\ trainerVersion = paramVersion
  BY DEF Train, JobInv, PipelineInv, ComponentsInv, TrainerInv, VersionsAgree
<1>2. \A i \in DOMAIN batch : batch[i] \in Samples /\ IsMember(batch[i])
  BY QueueTypes, ElementOfSeq, LenProperties
     DEF JobInv, PipelineInv, ComponentsInv, TrainerInv, TrainerData,
         MembersInv, ConsumedInOrder
<1>3. \A i \in DOMAIN batch : madeWith[batch[i]] = {trainerVersion}
  BY <1>1, <1>2 DEF QuotaInv, BegunInWindow
<1>4. trained' =
        trained \union {<<batch[i], trainerVersion>> : i \in DOMAIN batch}
  BY DEF Train
<1> QED
  BY <1>3, <1>4 DEF StrictOnPolicy

LEMMA StepKeepsOnPolicy ==
  ASSUME JobInv, QuotaInv, StrictOnPolicy, [Next]_vars
  PROVE  StrictOnPolicy'
<1>0. RollouterInv
  BY DEF JobInv, PipelineInv, ComponentsInv
<1>1. CASE UNCHANGED <<trained, madeWith>>
  BY <1>1 DEF StrictOnPolicy
<1>2. ASSUME UNCHANGED trained,
             \A s \in Samples : task[s] = "ok" => madeWith'[s] = madeWith[s]
      PROVE  StrictOnPolicy'
  BY <1>2, TrainedTypes DEF StrictOnPolicy
<1>3. ASSUME NEW s \in Samples, Admit(s)  PROVE StrictOnPolicy'
  <2>1. /\ trained' = trained /\ task[s] = "admission"
        /\ madeWith' = [madeWith EXCEPT ![s] = {weights}]
    BY <1>3 DEF Admit, TaskAdmitted, TaskStep, OutsideTasks, trainerVars
  <2> QED
    BY <1>2, <2>1 DEF JobInv, PipelineInv, GroupsInv, GroupData
<1>4. CASE TransferWeights
  BY <1>2, <1>4 DEF TransferWeights, SyncWeights
<1>5. CASE TrainerAlone
  BY <1>1, <1>5, TrainKeepsOnPolicy DEF TrainerAlone, OutsideTrainer, jobVars,
     sampleVars, FinalValidation, FinalWait, MoveTo
<1>6. CASE Collect \/ TrainerConsumes \/ StartSync \/ SyncVersion
  BY <1>1, <1>6 DEF Collect, CollectSample, CollectEnd, TrainerConsumes,
     ConsumedNext, StartSync, CallPause, SyncVersion, KeepVersion,
     VersionAdvanced, VersionRefused, MoveTo, OutsideTrainer, jobVars,
     sampleVars
<1>7. CASE UNCHANGED sampleState \/ EndIsPut \/ InitialSynchronisation
           \/ \E s \in Samples : TaskGoesOn(s) \/ TaskEnds(s)
  BY <1>1, <1>7 DEF sampleState, EndIsPut, TaskGoesOn, TaskEnds,
     InitialSynchronisation, InitialSync, MoveTo, OutsideMain, trainerVars,
     sampleVars
<1>8. CASE DispatcherAlone \/ DispatcherMarks \/ \E w \in Workers : Judge(w)
  BY <1>1, <1>8 DEF DispatcherAlone, DispatcherMarks, Judge, OutsideJudging,
     trainerVars, jobVars, sampleVars
<1> QED
  BY <1>0, <1>3, <1>4, <1>5, <1>6, <1>7, <1>8, JobSteps DEF TrainerStep

(* The weights being optimized are those that generated the whole sample,  *)
(* however rollouter, judges and trainer interleave, whatever the sizes of *)
(* batch, queues and window.                                               *)
THEOREM TrainsStrictlyOnPolicy ==
  ASSUME Tied
  PROVE  Spec => []StrictOnPolicy
<1>1. Init => StrictOnPolicy
  BY DEF Init, TrainerInit, StrictOnPolicy
<1>2. JobInv /\ QuotaInv /\ StrictOnPolicy /\ [Next]_vars => StrictOnPolicy'
  BY StepKeepsOnPolicy
<1> QED
  BY <1>1, <1>2, JobInvariant, QuotaInvariant, PTL DEF Spec

(* What is submitted and not trained is in the window or waits for it, so  *)
(* while the trainer trains there is never more of it than one quota.      *)
THEOREM StalenessIsBounded ==
  ASSUME Tied
  PROVE  Spec => []BoundedStaleness
<1>1. JobInv /\ QuotaInv => BoundedStaleness
  <2> SUFFICES ASSUME JobInv, QuotaInv, ~finishing
               PROVE  Cardinality({s \in Samples :
                        task[s] # "none" /\ ~Trained(s)}) <= MaxRequiredSamples
    BY DEF BoundedStaleness
  <2> DEFINE Untrained == {s \in Samples : task[s] # "none" /\ ~Trained(s)}
  <2>1. Quota /\ BegunInWindow
    BY DEF QuotaInv
  <2>2. Untrained \subseteq Members \union Waiting
    BY <2>1 DEF JobInv, PipelineInv, ComponentsInv, RollouterInv,
       RollouterData, TaskState, GroupsInv, OneGroupEach, MembersInv,
       TrainedInWindow, BegunInWindow, Members, Waiting
  <2>3. IsFiniteSet(Members) /\ Cardinality(Members) = nextIndex
    BY MembersAreCounted DEF JobInv
  <2>4. /\ IsFiniteSet(Members \union Waiting)
        /\ Cardinality(Members \union Waiting)
             <= nextIndex + Cardinality(Waiting)
    <3>1. Cardinality(Members \intersect Waiting) \in Nat
      BY <2>3, FS_Intersection, FS_CardinalityType
    <3>2. /\ Cardinality(Members \union Waiting) =
               nextIndex + Cardinality(Waiting)
                 - Cardinality(Members \intersect Waiting)
          /\ IsFiniteSet(Members \union Waiting)
      BY <2>3, QuotaNumbers, FS_Union
    <3>3. nextIndex \in Nat /\ Cardinality(Waiting) \in Nat
      BY QuotaNumbers DEF JobInv, PipelineInv, ComponentsInv
    <3> QED
      BY <3>1, <3>2, <3>3
  <2>5. /\ Cardinality(Untrained) <= Cardinality(Members \union Waiting)
        /\ Cardinality(Untrained) \in Nat
    BY <2>2, <2>4, FS_Subset, FS_CardinalityType
  <2>6. Cardinality(Members \union Waiting) \in Nat
    BY <2>4, FS_CardinalityType
  <2> HIDE DEF Untrained
  <2>7. Cardinality(Untrained) <= MaxRequiredSamples
    BY <2>1, <2>4, <2>5, <2>6, QuotaNumbers
       DEF Quota, JobInv, PipelineInv, ComponentsInv
  <2> QED
    BY <2>7 DEF Untrained
<1> QED
  BY <1>1, JobInvariant, QuotaInvariant, PTL

-----------------------------------------------------------------------------
(* Synchronization.  Where staleness_threshold is zero the rollout quota   *)
(* is what the optimizer steps on between two synchronisations.  So when   *)
(* the next version is asked for the trainer has consumed all that the     *)
(* window admitted; only the last reward may still have to be marked, as   *)
(* the dispatcher publishes a group before it marks it.                    *)
NoStaleness == MaxRequiredSamples = RequiredSamples * SyncStep

ConsumedSoFar ==
  /\ trainer \in {"initialSync", "collect", "consume", "train", "weights"} =>
       Cardinality(consumed) = (localStep - 1) * RequiredSamples + consumedCount
  /\ trainer \in {"waitValid", "version", "weights"} => localStep = 1
  /\ trainer \in {"waitValid", "version"} =>
       Cardinality(consumed) = RequiredSamples * SyncStep

SyncInv == ~finishing => ConsumedSoFar

LEMMA ConsumedIsFinite ==
  ASSUME CoordinatorIInv
  PROVE  IsFiniteSet(consumed) /\ Cardinality(consumed) \in Nat
BY FS_Subset, FS_CardinalityType
   DEF CoordinatorIInv, CoordinatorTypeOK, MembersAreNumbered

LEMMA ConsumeKeepsSync ==
  ASSUME JobInv, SyncInv, TrainerConsumes
  PROVE  SyncInv'
<1> USE DEF JobInv, PipelineInv, ComponentsInv
<1> DEFINE g == group[batch[consumedCount + 1]]
<1>1. /\ trainer = "consume" /\ consumedCount < RequiredSamples
      /\ Len(batch) = RequiredSamples /\ consumedCount \in Nat
      /\ batch \in Seq(Samples) /\ localStep \in Nat /\ ~finishing
  BY DEF TrainerConsumes, TrainerInv, BatchFills, TrainerData, VersionsAgree
<1>2. consumedCount + 1 \in DOMAIN batch
  BY <1>1, LenProperties, TrainerNumbers
<1>3. IsMember(batch[consumedCount + 1]) /\ g \notin consumed
  BY <1>1, <1>2 DEF MembersInv, ConsumedInOrder
<1> HIDE DEF g
<1>4. consumed' = consumed \union {g}
  BY <1>3 DEF TrainerConsumes, MarkConsumed, g
<1>5. Cardinality(consumed') = Cardinality(consumed) + 1
  BY <1>3, <1>4, ConsumedIsFinite, FS_AddElement
<1>6. /\ trainer' \in {"train", "consume"} /\ localStep' = localStep
      /\ consumedCount' = consumedCount + 1
  BY <1>3 DEF TrainerConsumes, ConsumedNext
<1>7. Cardinality(consumed) = (localStep - 1) * RequiredSamples + consumedCount
  BY <1>1 DEF SyncInv, ConsumedSoFar
<1>8. Cardinality(consumed')
        = (localStep' - 1) * RequiredSamples + consumedCount'
  <2>1. (localStep - 1) * RequiredSamples \in Int
    BY <1>1, TrainerNumbers
  <2> QED
    BY <1>1, <1>5, <1>6, <1>7, <2>1, ConsumedIsFinite
<1> QED
  BY <1>6, <1>8 DEF SyncInv, ConsumedSoFar

LEMMA TrainKeepsSync ==
  ASSUME JobInv, SyncInv, Train, UNCHANGED coordinatorVars
  PROVE  SyncInv'
<1> USE DEF JobInv, PipelineInv, ComponentsInv
<1>1. /\ trainer = "train" /\ ~finishing /\ consumedCount = RequiredSamples
      /\ localStep \in 1 .. SyncStep /\ localStep \in Nat
  BY TrainerNumbers
     DEF Train, TrainerInv, BatchFills, TrainerData, VersionsAgree
<1>2. Cardinality(consumed) = (localStep - 1) * RequiredSamples + RequiredSamples
      /\ consumed' = consumed
  BY <1>1 DEF SyncInv, ConsumedSoFar, coordinatorVars
<1>3. CASE SyncDue
  <2>1. localStep' = 1 /\ trainer' = "waitValid"
    BY <1>3 DEF Train
  <2>2. localStep = SyncStep
    BY <1>1, <1>3, TrainerNumbers DEF SyncDue
  <2>3. (SyncStep - 1) * RequiredSamples + RequiredSamples
          = RequiredSamples * SyncStep
    BY TrainerNumbers
  <2>4. Cardinality(consumed') = RequiredSamples * SyncStep
    BY <1>2, <2>2, <2>3
  <2> QED
    BY <2>1, <2>4 DEF SyncInv, ConsumedSoFar
<1>4. CASE ~SyncDue
  <2>1. /\ localStep' = localStep + 1 /\ trainer' = "collect"
        /\ consumedCount' = 0
    BY <1>4 DEF Train
  <2>2. (localStep - 1) * RequiredSamples + RequiredSamples
          = ((localStep + 1) - 1) * RequiredSamples + 0
    BY <1>1, TrainerNumbers
  <2>3. Cardinality(consumed')
          = (localStep' - 1) * RequiredSamples + consumedCount'
    BY <1>2, <2>1, <2>2
  <2> QED
    BY <2>1, <2>3 DEF SyncInv, ConsumedSoFar
<1> QED
  BY <1>3, <1>4

LEMMA VersionKeepsSync ==
  ASSUME JobInv, SyncInv, SyncVersion
  PROVE  SyncInv'
<1> USE DEF JobInv, PipelineInv, ComponentsInv
<1> SUFFICES ASSUME ~finishing PROVE ConsumedSoFar'
  BY DEF SyncInv, SyncVersion, KeepVersion, VersionAdvanced, VersionRefused,
         MoveTo
<1>1. /\ trainer = "version" /\ trainer' \in {"weights", "failed"}
      /\ UNCHANGED <<localStep, consumedCount>>
  BY DEF SyncVersion, KeepVersion, VersionAdvanced, VersionRefused, MoveTo
<1>2. localStep = 1 /\ consumedCount = 0
  BY <1>1 DEF SyncInv, ConsumedSoFar, TrainerInv, BatchFills
<1>3. trainerVersion = paramVersion + 1 /\ paramVersion \in Nat
  BY <1>1 DEF TrainerInv, VersionsAgree, CoordinatorIInv, CoordinatorTypeOK
<1>4. ~VersionIsCurrent(paramVersion)
  BY <1>3 DEF VersionIsCurrent
<1>5. trainer' = "weights" => consumed' = {}
  BY <1>4 DEF SyncVersion, VersionRefused, MoveTo, AdvanceVersion
<1>6. trainer' = "weights" =>
        Cardinality(consumed')
          = (localStep' - 1) * RequiredSamples + consumedCount'
  BY <1>1, <1>2, <1>5, TrainerNumbers, FS_EmptySet
<1> QED
  BY <1>1, <1>2, <1>6 DEF ConsumedSoFar

LEMMA StepKeepsSync == JobInv /\ SyncInv /\ [Next]_vars => SyncInv'
<1> SUFFICES ASSUME JobInv, SyncInv, [Next]_vars PROVE SyncInv'
  OBVIOUS
<1>0. RollouterInv
  BY DEF JobInv, PipelineInv, ComponentsInv
<1>1. ASSUME UNCHANGED <<trainer, finishing, localStep, consumedCount, consumed>>
      PROVE  SyncInv'
  BY <1>1 DEF SyncInv, ConsumedSoFar
<1>2. CASE UNCHANGED <<trainerVars, coordinatorVars>>
  BY <1>1, <1>2 DEF trainerVars, coordinatorVars
<1>3. ASSUME NEW s \in Samples, Admit(s)  PROVE SyncInv'
  BY <1>1, <1>3 DEF Admit, RequestAdmission, OutsideTasks, trainerVars
<1>4. CASE DispatcherMarks
  BY <1>1, <1>4 DEF DispatcherMarks, MarkRewardDone, OutsideJudging,
                    trainerVars, coordinatorVars
<1>5. CASE Collect \/ TransferWeights \/ StartSync \/ InitialSynchronisation
  <2>1. /\ UNCHANGED <<finishing, localStep, consumedCount, coordinatorVars>>
        /\ \/ trainer \in {"collect", "initialSync", "weights"}
              /\ trainer' \notin {"train", "weights", "waitValid", "version"}
           \/ trainer = "waitValid" /\ trainer' = "version"
    BY <1>5 DEF Collect, CollectSample, CollectEnd, TransferWeights,
       SyncWeights, StartSync, CallPause, InitialSynchronisation, InitialSync,
       OutsideMain, MoveTo
  <2>2. consumed' = consumed
    BY <2>1 DEF coordinatorVars
  <2> QED
    BY <2>1, <2>2 DEF SyncInv, ConsumedSoFar
<1>6. CASE TrainerAlone
  <2>1. CASE Train
    BY <1>6, <2>1, TrainKeepsSync DEF TrainerAlone, Train, FinalValidation,
       FinalWait, MoveTo
  <2>2. CASE FinalValidation \/ FinalWait
    BY <2>2 DEF FinalValidation, FinalWait, MoveTo, SyncInv, ConsumedSoFar
  <2> QED
    BY <1>6, <2>1, <2>2 DEF TrainerAlone
<1>7. CASE UNCHANGED sampleState \/ EndIsPut
           \/ \E s \in Samples : TaskGoesOn(s) \/ TaskEnds(s)
  BY <1>2, <1>7 DEF sampleState, EndIsPut, TaskGoesOn, TaskEnds
<1>8. CASE DispatcherAlone \/ \E w \in Workers : Judge(w)
  BY <1>2, <1>8 DEF DispatcherAlone, Judge, OutsideJudging
<1> QED
  BY <1>0, <1>3, <1>4, <1>5, <1>6, <1>7, <1>8, JobSteps, ConsumeKeepsSync,
     VersionKeepsSync DEF TrainerStep

LEMMA InitSync == Init => SyncInv
<1> SUFFICES ASSUME Init PROVE SyncInv
  OBVIOUS
<1>1. /\ consumed = {} /\ localStep = 1 /\ consumedCount = 0
      /\ trainer = "initialSync"
  BY DEF Init, TrainerInit, CoordinatorInit
<1>2. Cardinality(consumed) = (localStep - 1) * RequiredSamples + consumedCount
  BY <1>1, FS_EmptySet, TrainerNumbers
<1> QED
  BY <1>1, <1>2 DEF SyncInv, ConsumedSoFar

(* What is consumed when the next version is asked for is all that was     *)
(* admitted: the quota admits no more.                                     *)
LEMMA AllIsConsumed ==
  ASSUME NoStaleness, JobInv, QuotaInv, SyncInv, ~finishing,
         trainer \in {"waitValid", "version"}
  PROVE  /\ consumed = admitted
         /\ Cardinality(admitted) = RequiredSamples * SyncStep
<1> USE DEF JobInv, PipelineInv, ComponentsInv
<1>1. /\ IsFiniteSet(admitted) /\ Cardinality(admitted) = nextIndex
      /\ nextIndex \in Nat /\ consumed \subseteq admitted
  BY TargetAssumption
     DEF CoordinatorIInv, CoordinatorTypeOK, MembersAreNumbered
<1>2. nextIndex <= MaxRequiredSamples
  BY <1>1, QuotaNumbers DEF QuotaInv, Quota
<1>3. Cardinality(consumed) = MaxRequiredSamples
  BY DEF SyncInv, ConsumedSoFar, NoStaleness
<1>4. Cardinality(consumed) <= Cardinality(admitted)
  BY <1>1, FS_Subset
<1>5. Cardinality(consumed) = Cardinality(admitted)
  BY <1>1, <1>2, <1>3, <1>4, QuotaNumbers
<1> QED
  BY <1>1, <1>3, <1>5, FS_Subset DEF NoStaleness

(* When the trainer asks for the next version, the coordinator has a whole *)
(* synchronisation's worth of groups, all that were admitted, consumed and *)
(* marked, save the one whose mark the dispatcher is about to send: what   *)
(* makes _sync_window_coordinator_version raise is that mark, or a window  *)
(* larger than the quota.                                                  *)
THEOREM SyncLacksOneMark ==
  ASSUME Tied, NoStaleness
  PROVE  Spec => []OnlyMarkIsLate
<1>1. JobInv /\ QuotaInv /\ SyncInv => OnlyMarkIsLate
  <2> SUFFICES ASSUME JobInv, QuotaInv, SyncInv, trainer = "version", ~finishing
               PROVE  /\ VersionMayAdvance(paramVersion)
                      /\ Cardinality(admitted) = RequiredSamples * SyncStep
                      /\ consumed = admitted
                      /\ \A s \in Samples :
                           IsMember(s) /\ group[s] \notin rewardDone =>
                             dispatcher = "mark" /\ payload = s
    BY DEF OnlyMarkIsLate
  <2>1. VersionMayAdvance(paramVersion)
    <3>1. trainerVersion = paramVersion + 1 /\ paramVersion \in Nat
      BY DEF JobInv, PipelineInv, ComponentsInv, TrainerInv, VersionsAgree,
             CoordinatorIInv, CoordinatorTypeOK
    <3> QED
      BY <3>1 DEF VersionMayAdvance
  <2>2. consumed = admitted
        /\ Cardinality(admitted) = RequiredSamples * SyncStep
    BY AllIsConsumed
  <2>3. ASSUME NEW s \in Samples, IsMember(s), group[s] \notin rewardDone
        PROVE  dispatcher = "mark" /\ payload = s
    <3>1. Published(s)
      BY <2>2, <2>3
         DEF IsMember, JobInv, MembersInv, ConsumedInOrder, Published
    <3> QED
      BY <2>3, <3>1 DEF JobInv, MembersInv, MarkedOncePublished
  <2> QED
    BY <2>1, <2>2, <2>3
<1> QED
  BY <1>1, InitSync, StepKeepsSync, JobInvariant, QuotaInvariant, PTL DEF Spec

-----------------------------------------------------------------------------
(* The end of the job, until a judge raises.  The marker that ends the     *)
(* training follows the last sample through the pipeline, so nothing is    *)
(* submitted any more once the trainer finishes, and what waits still      *)
(* finds the room its quota left.                                          *)
EndReached ==
  /\ dispatcher \notin {"endRaising", "raised"}
  /\ InSeq(rawQueue, EndMarker) \/ upstreamDone => processor = "ended"
  /\ \/ dispatcher \in {"end", "exited"}
     \/ InSeq(scoredQueue, EndMarker)
     \/ Finishing
     => upstreamDone

RoomAtEnd ==
  finishing => nextIndex + Cardinality(Waiting) <= MaxRequiredSamples

EndInv == unjudged = {} => EndReached /\ RoomAtEnd

LEMMA UnjudgedGrows == [Next]_vars => unjudged \subseteq unjudged'
<1> SUFFICES ASSUME [Next]_vars PROVE unjudged \subseteq unjudged'
  OBVIOUS
<1> USE DEF judgeVars
<1>1. CASE InitialSynchronisation \/ MainStep \/ TrainerStep \/ UNCHANGED vars
  BY <1>1 DEF InitialSynchronisation, MainStep, OutsideMain, TrainerStep,
     Collect, TrainerConsumes, TrainerAlone, StartSync, SyncVersion,
     TransferWeights, OutsideTrainer, vars
<1>2. CASE RollouterAlone \/ EndGeneration \/ RollouterStops
  BY <1>2 DEF RollouterAlone, EndGeneration, RollouterStops, OutsideTasks
<1>3. ASSUME NEW s \in Samples, TaskProgress(s) \/ GenerationFails(s)
      PROVE  unjudged \subseteq unjudged'
  BY <1>3 DEF TaskProgress, Admit, AdmissionTimesOut, Generated, EnqueueRaw,
     GenerationFails, OutsideTasks
<1>4. ASSUME NEW w \in Workers, Judge(w)  PROVE unjudged \subseteq unjudged'
  BY <1>4 DEF Judge, JudgeFinishes
<1>5. CASE DispatcherStep
  BY <1>5 DEF DispatcherStep, DispatcherAlone, DispatcherMarks, Marked, Pull,
     PullNothing, ReapNothing, ReapScore, Publish, PublishEnd
<1> QED
  BY <1>1, <1>2, <1>3, <1>4, <1>5 DEF Next

(* Once it has ended the processor neither takes nor submits, and no task  *)
(* asks for admission.                                                     *)
LEMMA EndedStays ==
  ASSUME RollouterInv, processor = "ended", [Next]_vars
  PROVE  processor' = "ended" /\ Waiting' \subseteq Waiting
<1> USE DEF RollouterInv
<1>1. CASE Feed \/ LockStep \/ ProcessorStep \/ MonitorStep \/ RemoteStep
           \/ ProcessorEnds \/ StopRunning
           \/ \E call \in {"pause", "update"} : CallRemote(call)
  <2>1. UNCHANGED <<processor, hand, task>>
    BY <1>1 DEF Feed, LockStep, WaitForLock, ProcessorStep, CheckPause,
       SetPaused, Sleep, Take, WaitForSample, Submit, ReapWait, ReapNoTasks,
       Reap, ReapLoop, MonitorStep, MonitorTurn, MonitorCheck, MonitorResume,
       MonitorOnly, LiftPause, LeavePause, NotifyAll, RemoteStep, PauseStarts,
       PauseClears, PauseReturns, UpdateStarts, UpdateResetsStaleness,
       UpdateReturns, Resume, RemoteOnly, ProcessorEnds, StopRunning,
       CallRemote, processorVars, sampleTasks
  <2> QED
    BY <2>1 DEF Waiting
<1>2. ASSUME NEW s \in Samples, TaskMoves(s)
      PROVE  processor' = "ended" /\ Waiting' \subseteq Waiting
  <2>1. /\ UNCHANGED <<processor, hand>>
        /\ \E to \in {"generating", "failed", "enqueue", "ok"} :
             task' = [task EXCEPT ![s] = to]
    BY <1>2 DEF TaskMoves, TaskAdmitted, TaskAdmissionTimesOut, TaskGenerated,
       TaskGenerationFails, TaskEnqueued, TaskStoppedEnqueuing, TaskStep,
       processorVars
  <2> QED
    BY <2>1 DEF Waiting, RollouterData
<1>3. CASE UNCHANGED rollouterVars
  BY <1>3 DEF rollouterVars, processorVars, sampleTasks, Waiting
<1> QED
  BY <1>1, <1>2, <1>3, RollouterSteps DEF RollouterNext

(* A step that leaves the queues and the dispatcher alone. *)
LEMMA QuietKeepsEnd ==
  ASSUME RollouterInv, EndReached, [Next]_vars,
         UNCHANGED <<rawQueue, scoredQueue, dispatcher, upstreamDone>>,
         Finishing' => Finishing
  PROVE  EndReached'
BY EndedStays DEF EndReached

LEMMA QueuesKeepEnd ==
  ASSUME JobInv, EndReached, [Next]_vars,
         \/ EndGeneration
         \/ \E s \in Samples : EnqueueRaw(s)
         \/ DispatcherAlone /\ Pull
         \/ Collect
  PROVE  EndReached'
<1> USE DEF JobInv, PipelineInv, ComponentsInv
<1>0. /\ processor = "ended" => processor' = "ended"
      /\ rawQueue \in Seq(Items) /\ scoredQueue \in Seq(Items)
      /\ Distinct(rawQueue) /\ Distinct(scoredQueue)
      /\ EndMarker \in Items /\ Samples \subseteq Items
  BY EndedStays DEF DispatcherData, PlacesInv, QueuedOnceEach, Items
<1>1. CASE EndGeneration
  <2>1. processor' = "ended"
    BY <1>1 DEF EndGeneration, ProcessorEnds
  <2> QED
    BY <1>1, <2>1 DEF EndGeneration, OutsideTasks, dispatcherVars, trainerVars,
                      EndReached, Finishing
<1>2. ASSUME NEW s \in Samples, EnqueueRaw(s)  PROVE EndReached'
  <2>1. rawQueue' = rawQueue \/ rawQueue' = Append(rawQueue, s)
    BY <1>2 DEF EnqueueRaw, PutNowait
  <2>2. InSeq(rawQueue, EndMarker)' => InSeq(rawQueue, EndMarker)
    BY <1>0, <2>1, InAppend, SampleIsNoMarker DEF InSeq
  <2> QED
    BY <1>0, <1>2, <2>2 DEF EnqueueRaw, OutsideTasks, dispatcherVars,
                            trainerVars, EndReached, Finishing, InSeq
<1>3. CASE DispatcherAlone /\ Pull
  <2>1. /\ InSeq(Tail(rawQueue), EndMarker) => InSeq(rawQueue, EndMarker)
        /\ InSeq(rawQueue, Head(rawQueue))
    BY <1>0, <1>3, InTail DEF Pull
  <2>2. InSeq(rawQueue, EndMarker)' \/ upstreamDone' => processor = "ended"
    BY <1>3, <2>1 DEF Pull, EndReached, InSeq
  <2>3. trainer' = trainer /\ finishing' = finishing
    BY <1>3 DEF DispatcherAlone, OutsideJudging, trainerVars
  <2> QED
    BY <1>0, <1>3, <2>2, <2>3 DEF Pull, EndReached, Finishing, InSeq
<1>4. CASE Collect
  <2>1. /\ InSeq(Tail(scoredQueue), EndMarker) => InSeq(scoredQueue, EndMarker)
        /\ InSeq(scoredQueue, Head(scoredQueue))
    BY <1>0, <1>4, InTail DEF Collect
  <2>2. /\ scoredQueue' = Tail(scoredQueue)
        /\ UNCHANGED <<rawQueue, dispatcher, upstreamDone>>
        /\ Finishing' => Finishing \/ Head(scoredQueue) = EndMarker
    BY <1>4 DEF Collect, CollectEnd, CollectSample, OutsideTrainer,
                dispatcherVars, Finishing
  <2>3. InSeq(scoredQueue, EndMarker)' \/ Finishing' => upstreamDone
    BY <2>1, <2>2 DEF EndReached, InSeq
  <2> QED
    BY <1>0, <2>2, <2>3 DEF EndReached, InSeq
<1> QED
  BY <1>1, <1>2, <1>3, <1>4

LEMMA DispatcherKeepsEnd ==
  ASSUME unjudged' = {}, JobInv, EndReached, [Next]_vars, DispatcherStep, ~Pull
  PROVE  EndReached'
<1> USE DEF JobInv, PipelineInv, ComponentsInv
<1>0. /\ processor = "ended" => processor' = "ended"
      /\ UNCHANGED <<trainer, finishing>>
      /\ scoredQueue \in Seq(Items)
  BY EndedStays DEF DispatcherStep, DispatcherAlone, DispatcherMarks,
                    OutsideJudging, trainerVars, DispatcherData
<1>1. CASE PullNothing \/ ReapNothing
  BY <1>0, <1>1 DEF PullNothing, ReapNothing, NothingLeft, EndReached,
                    Finishing, InSeq
<1>2. ASSUME NEW s \in Samples, ReapScore(s)  PROVE EndReached'
  <2>1. dispatcher' = "publish" /\ UNCHANGED <<rawQueue, scoredQueue, upstreamDone>>
    BY <1>2 DEF ReapScore
  <2> QED
    BY <1>0, <2>1 DEF EndReached, Finishing, InSeq
<1>3. CASE Publish
  <2>1. payload # EndMarker /\ payload \in Items
    BY <1>3 DEF Publish, PlacesInv, MarkedIsPast, DispatcherData
  <2>2. scoredQueue' = Append(scoredQueue, payload)
    BY <1>3 DEF Publish, HasRoom, PutNowait
  <2>3. InSeq(scoredQueue', EndMarker) => InSeq(scoredQueue, EndMarker)
    BY <1>0, <2>1, <2>2, InAppend
  <2> QED
    BY <1>0, <1>3, <2>3 DEF Publish, EndReached, Finishing, InSeq
<1>4. CASE PublishEnd
  BY <1>0, <1>4 DEF PublishEnd, EndReached, Finishing, InSeq
<1>5. CASE DispatcherMarks
  <2>1. IsMember(payload)
    BY <1>5 DEF DispatcherMarks, MembersInv, FreshWhileEarly
  <2> QED
    BY <1>0, <1>5, <2>1 DEF DispatcherMarks, Marked, EndReached, Finishing,
                            InSeq
<1> QED
  BY <1>1, <1>2, <1>3, <1>4, <1>5 DEF DispatcherStep, DispatcherAlone

LEMMA StepKeepsEnd ==
  ASSUME unjudged' = {}, JobInv, EndReached, [Next]_vars
  PROVE  EndReached'
<1>0. RollouterInv
  BY DEF JobInv, PipelineInv, ComponentsInv
<1> USE DEF queues, dispatcherVars, trainerVars, Finishing
<1>1. CASE InitialSynchronisation \/ MainStep \/ RollouterAlone
           \/ RollouterStops \/ UNCHANGED vars
  BY <1>0, <1>1, QuietKeepsEnd DEF InitialSynchronisation, InitialSync, MoveTo,
     MainStep, OutsideMain, RollouterAlone, RollouterStops, OutsideTasks, vars
<1>2. ASSUME NEW s \in Samples,
             \/ Admit(s) \/ AdmissionTimesOut(s) \/ Generated(s)
             \/ GenerationFails(s)
      PROVE  EndReached'
  BY <1>0, <1>2, QuietKeepsEnd DEF Admit, AdmissionTimesOut, Generated,
     GenerationFails, OutsideTasks
<1>3. ASSUME NEW w \in Workers, Judge(w)  PROVE EndReached'
  BY <1>0, <1>3, QuietKeepsEnd DEF Judge, JudgeFinishes, OutsideJudging
<1>4. CASE TrainerStep /\ ~Collect
  BY <1>0, <1>4, QuietKeepsEnd DEF TrainerStep, TrainerConsumes, ConsumedNext,
     TrainerAlone, Train, FinalValidation, FinalWait, StartSync, CallPause,
     SyncVersion, KeepVersion, VersionAdvanced, VersionRefused, TransferWeights,
     SyncWeights, MoveTo, OutsideTrainer
<1>5. CASE DispatcherStep
  BY <1>5, QueuesKeepEnd, DispatcherKeepsEnd
     DEF DispatcherStep, DispatcherMarks, Marked, Pull
<1> QED
  BY <1>1, <1>2, <1>3, <1>4, <1>5, QueuesKeepEnd DEF Next, TaskProgress

LEMMA StepKeepsRoom ==
  ASSUME Tied, JobInv, QuotaInv, EndReached, RoomAtEnd, [Next]_vars
  PROVE  RoomAtEnd'
<1> SUFFICES ASSUME finishing'
             PROVE  (nextIndex + Cardinality(Waiting) <= MaxRequiredSamples)'
  BY DEF RoomAtEnd
<1> USE QuotaNumbers DEF JobInv, PipelineInv, ComponentsInv
<1>1. Finishing /\ nextIndex + Cardinality(Waiting) <= MaxRequiredSamples
  <2>1. CASE finishing
    BY <2>1 DEF Finishing, RoomAtEnd
  <2>2. CASE ~finishing
    <3>1. trainer = "finish"
      BY <2>2, TrainerSteps DEF trainerSide, trainerVars, MainStep, RemoteAlone,
         InitialSynchronisation, InitialSync, MoveTo, TrainerStep, Collect,
         CollectEnd, CollectSample, TrainerConsumes, ConsumedNext,
         TrainerAlone, Train, FinalValidation, FinalWait, StartSync, CallPause,
         SyncVersion, KeepVersion, VersionAdvanced, VersionRefused,
         TransferWeights, SyncWeights
    <3> QED
      BY <2>2, <3>1 DEF Finishing, QuotaInv, Quota
  <2> QED
    BY <2>1, <2>2
<1>2. Waiting' \subseteq Waiting
  BY <1>1, EndedStays DEF EndReached
<1>3. /\ Cardinality(Waiting') <= Cardinality(Waiting)
      /\ Cardinality(Waiting') \in Nat
  BY <1>2, FS_Subset, FS_CardinalityType
<1>4. ASSUME nextIndex' = nextIndex \/ nextIndex' = 0
      PROVE  nextIndex' + Cardinality(Waiting') <= MaxRequiredSamples
  BY <1>1, <1>3, <1>4
<1>5. ASSUME NEW s \in Samples, Admit(s)
      PROVE  nextIndex' + Cardinality(Waiting') <= MaxRequiredSamples
  BY <1>1, <1>3, <1>5, AdmissionMovesOne
<1>6. CASE UNCHANGED sampleState \/ EndIsPut \/ InitialSynchronisation
           \/ \E s \in Samples : TaskGoesOn(s) \/ TaskEnds(s)
  BY <1>4, <1>6 DEF sampleState, coordinatorVars, EndIsPut, TaskGoesOn,
     TaskEnds, InitialSynchronisation, OutsideMain
<1>7. CASE DispatcherAlone \/ DispatcherMarks \/ \E w \in Workers : Judge(w)
  BY <1>4, <1>7 DEF DispatcherAlone, DispatcherMarks, MarkRewardDone, Judge,
     coordinatorVars
<1>8. CASE TrainerStep
  BY <1>4, <1>8 DEF TrainerStep, Collect, TrainerConsumes, MarkConsumed,
     TrainerAlone, StartSync, SyncVersion, AdvanceVersion, TransferWeights,
     coordinatorVars
<1> QED
  BY <1>5, <1>6, <1>7, <1>8, JobSteps

LEMMA InitEnd == Init => EndInv
<1> SUFFICES ASSUME Init PROVE EndInv
  OBVIOUS
<1>1. /\ dispatcher = "pull" /\ rawQueue = <<>> /\ scoredQueue = <<>>
      /\ upstreamDone = FALSE /\ ~finishing /\ trainer = "initialSync"
  BY DEF Init, DispatcherInit, TrainerInit
<1> QED
  BY <1>1 DEF EndInv, EndReached, RoomAtEnd, InSeq, Finishing

(* Until a judge raises no sample waits for a window to open: the          *)
(* rollouter has submitted no more than the window has room for.           *)
THEOREM AdmissionsAreGranted ==
  ASSUME Tied
  PROVE  Spec => []AdmissionNeverRefused
<1>1. JobInv /\ QuotaInv /\ EndInv => AdmissionNeverRefused
  <2> SUFFICES ASSUME JobInv, QuotaInv, EndInv, unjudged = {},
                      NEW s \in Samples, task[s] = "admission"
               PROVE  windowState = "OPEN"
    BY DEF AdmissionNeverRefused
  <2> USE QuotaNumbers DEF JobInv, PipelineInv, ComponentsInv
  <2>1. Cardinality(Waiting) # 0
    BY SomeWaiting
  <2>2. nextIndex + Cardinality(Waiting) <= MaxRequiredSamples
    BY DEF QuotaInv, Quota, EndInv, RoomAtEnd
  <2>3. nextIndex < TargetGroupCount
    BY <2>1, <2>2 DEF Tied
  <2> QED
    BY <2>3 DEF CoordinatorIInv, MembersAreNumbered
<1>2. JobInv /\ QuotaInv /\ EndInv /\ [Next]_vars => EndInv'
  BY StepKeepsEnd, StepKeepsRoom, UnjudgedGrows DEF EndInv
<1> QED
  BY <1>1, <1>2, InitEnd, JobInvariant, QuotaInvariant, PTL DEF Spec

-----------------------------------------------------------------------------
(* The processor's first tasks.  Until it has reaped one, done_tasks has   *)
(* no value, and it must not find active_tasks emptied.  It does not: only *)
(* the processor has held the lock by then, it takes it as soon as it has  *)
(* tasks to wait for, and pause() is not called before the quota is used.  *)
FirstTasks ==
  /\ remote \in {"none", "pause"}
  /\ processor \in ReapLoop \union {"loop", "take", "pausing", "submit"}
  /\ paused => processor = "halt"
  /\ processor = "pausing" => staleness >= MaxRequiredSamples
  /\ \A s \in Samples : s <= taken /\ s # hand => s \in active
  /\ processor \in ReapLoop => active # {}

OwnLock ==
  /\ lock \in {"free", "processor"}
  /\ lock = "processor" => processor \in ReapLoop /\ onLoop # "processor"
  /\ lock = "free" => lockQueue = <<>>
  /\ lock = "free" /\ onLoop # "processor" =>
       processor \in {"loop", "take"} /\ staleness < MaxRequiredSamples

FirstTasksInv == ~doneTasksBound /\ ~finishing => FirstTasks /\ OwnLock

CrashedByTask == processor = "crashed" => ~NothingFailed

SurvivalInv == FirstTasksInv /\ CrashedByTask

LEMMA LimitReached ==
  ASSUME NEW T, T \subseteq Samples, NEW l \in ReapLoop, ReapOrGoOn(l, T) = l
  PROVE  T # {}
<1>1. Cardinality({}) = 0 /\ MaxConcurrent \in Nat /\ MaxConcurrent # 0
  BY FS_EmptySet, RollouterAssumption
<1> QED
  BY <1>1, FS_EmptySet DEF ReapOrGoOn, ReapAgain, AfterReap, ReapLoop

LEMMA ProcessorKeepsFirst ==
  ASSUME RollouterInv, FirstTasks, OwnLock, ProcessorStep, ~doneTasksBound',
         processor = "take" => staleness < MaxRequiredSamples
  PROVE  FirstTasks' /\ OwnLock'
<1> USE DEF RollouterInv, GoesOn, WaitsNow, processorVars, sampleTasks,
            lockVars, otherVars
<1>0. /\ staleness \in Nat /\ taken \in Nat /\ SampleCount \in Nat
      /\ MaxRequiredSamples \in Nat /\ MaxRequiredSamples # 0
      /\ SampleCount # 0 /\ active \subseteq Samples
      /\ Samples = 1 .. SampleCount /\ NoSample = 0
      /\ paused \in BOOLEAN /\ onLoop \in {"none", "processor"}
      /\ taken <= SampleCount
  BY QuotaNumbers, CountsAreNaturals DEF RollouterData, Samples, NoSample
<1>1. CASE CheckPause
  <2>1. /\ processor = "loop" /\ ~paused /\ lock = "free"
        /\ lockQueue = <<>>
    BY <1>0, <1>1 DEF CheckPause, FirstTasks, OwnLock, ReapLoop
  <2>2. /\ processor' = "pausing" => staleness >= MaxRequiredSamples
        /\ processor' \in {"pausing", "take"} /\ onLoop' = "processor"
        /\ UNCHANGED <<remote, paused, staleness, taken, hand, active, lock,
                       lockQueue>>
    BY <1>0, <1>1, <2>1 DEF CheckPause, ShouldPause
  <2> QED
    BY <1>0, <2>1, <2>2 DEF FirstTasks, OwnLock, ReapLoop
<1>2. CASE SetPaused
  <2>1. staleness <= taken /\ hand = NoSample /\ staleness # 0
    BY <1>0, <1>2 DEF SetPaused, FirstTasks, TakenInOrder, PastEnd, HandHeld,
                      HoldsHand
  <2>2. 1 \in active
    BY <1>0, <2>1 DEF FirstTasks
  <2>3. processor' = "halt" /\ onLoop' = "processor" /\ lock' = lock
        /\ lock = "free" /\ lockQueue' = <<>>
    BY <1>2, <2>2 DEF SetPaused, ReapOrGoOn, ReapAgain, PassLock, LockFor,
                      Served, OwnLock
  <2> QED
    BY <1>2, <2>2, <2>3 DEF SetPaused, FirstTasks, OwnLock, ReapLoop
<1>3. CASE Take
  <2>1. lock = "free" /\ lockQueue = <<>> /\ hand = NoSample /\ ~paused
    BY <1>3 DEF Take, FirstTasks, OwnLock, ReapLoop, HandHeld, HoldsHand
  <2>2. CASE taken < SampleCount
    <3>1. /\ taken' = taken + 1 /\ hand' = taken + 1
          /\ processor' = ReapOrGoOn("limit", active)
      BY <1>0, <1>3, <2>2 DEF Take
    <3>2. /\ processor' \in {"limit", "submit"}
          /\ processor' \in ReapLoop => active # {}
      BY <1>0, <3>1, ReapTypes, LimitReached
         DEF ReapLoop, AfterReap, ReapOrGoOn
    <3>3. \A s \in Samples : s <= taken' /\ s # hand' => s \in active
      BY <1>0, <2>1, <3>1 DEF FirstTasks
    <3> QED
      BY <1>3, <2>1, <3>2, <3>3 DEF Take, FirstTasks, OwnLock, ReapLoop
  <2>3. CASE taken = SampleCount
    <3>1. 1 \in active
      BY <1>0, <2>1, <2>3 DEF FirstTasks
    <3>2. processor' = "final" /\ UNCHANGED <<taken, hand>>
      BY <1>0, <1>3, <2>3, <3>1 DEF Take, ReapOrGoOn, ReapAgain
    <3> QED
      BY <1>3, <2>1, <3>1, <3>2 DEF Take, FirstTasks, OwnLock, ReapLoop
  <2> QED
    BY <1>3, <2>2, <2>3 DEF Take
<1>4. CASE WaitForSample
  BY <1>4 DEF WaitForSample, FirstTasks, OwnLock, ReapLoop
<1>5. CASE Submit
  <2>1. /\ processor = "submit" /\ ~paused /\ lock = "free"
        /\ hand \in Samples /\ hand = taken
    BY <1>5 DEF Submit, PassLock, LockFor, FirstTasks, HandHeld, HoldsHand,
                RollouterData, TakenInOrder
  <2>2. /\ active' = active \union {hand} /\ processor' = "loop"
        /\ onLoop' = "processor" /\ lock' = "free" /\ lockQueue' = <<>>
        /\ UNCHANGED <<remote, paused, taken>>
    BY <1>5, <2>1 DEF Submit, PassLock, Served, OwnLock
  <2>3. \A s \in Samples : s <= taken => s \in active'
    BY <2>2 DEF FirstTasks
  <2> QED
    BY <2>1, <2>2, <2>3 DEF FirstTasks, OwnLock, ReapLoop
<1>6. ASSUME NEW l \in ReapLoop, ReapWait(l)  PROVE FirstTasks' /\ OwnLock'
  BY <1>6 DEF ReapWait, KeepLock, FirstTasks, OwnLock, ReapLoop
<1>7. ASSUME NEW l \in ReapLoop  PROVE ~ReapNoTasks(l) /\ ~Reap(l)
  BY <1>7 DEF ReapNoTasks, Reap, FirstTasks
<1>8. ~Sleep
  BY DEF Sleep, FirstTasks, ReapLoop
<1> QED
  BY <1>1, <1>2, <1>3, <1>4, <1>5, <1>6, <1>7, <1>8 DEF ProcessorStep

LEMMA OthersKeepFirst ==
  ASSUME RollouterInv, FirstTasks, OwnLock,
         \/ Feed \/ LockStep \/ MonitorStep
         \/ \E s \in Samples : TaskMoves(s)
         \/ UNCHANGED rollouterVars
  PROVE  FirstTasks' /\ OwnLock'
<1> USE DEF processorVars, sampleTasks, lockVars, otherVars
<1>1. CASE Feed \/ UNCHANGED rollouterVars
  BY <1>1 DEF Feed, rollouterVars, FirstTasks, OwnLock
<1>2. CASE LockStep
  <2>1. PICK c : WaitForLock(c)
    BY <1>2 DEF LockStep
  <2>2. lock = "processor" /\ onLoop' = "none" /\ lock' = lock
    BY <2>1 DEF WaitForLock, LockFor, OwnLock
  <2> QED
    BY <2>1, <2>2 DEF WaitForLock, FirstTasks, OwnLock
<1>3. CASE MonitorStep
  <2>1. /\ UNCHANGED <<taken, hand, active, staleness, remote, onLoop, lock>>
        /\ NotifyAll \/ NotifyNobody
        /\ paused' = TRUE => paused = TRUE
        /\ paused' \in BOOLEAN
    BY <1>3 DEF MonitorStep, MonitorTurn, MonitorCheck, MonitorResume,
       MonitorOnly, PassLock, LiftPause, LeavePause, NotifyNobody,
       RollouterInv, RollouterData
  <2>2. processor' = processor
    BY <2>1 DEF NotifyAll, NotifyNobody, FirstTasks, ReapLoop
  <2>3. lock = "free" => lockQueue' = <<>>
    BY <1>3 DEF MonitorStep, MonitorTurn, MonitorCheck, MonitorResume,
       PassLock, LockFor, Served, OwnLock
  <2> QED
    BY <2>1, <2>2, <2>3 DEF FirstTasks, OwnLock
<1>4. ASSUME NEW s \in Samples, TaskMoves(s)  PROVE FirstTasks' /\ OwnLock'
  BY <1>4 DEF TaskMoves, TaskAdmitted, TaskAdmissionTimesOut, TaskGenerated,
     TaskGenerationFails, TaskEnqueued, TaskStoppedEnqueuing, TaskStep,
     FirstTasks, OwnLock
<1> QED
  BY <1>1, <1>2, <1>3, <1>4

(* Before the first task is reaped pause() does not get the lock: either   *)
(* the quota is not used up yet, or the processor holds the lock.          *)
LEMMA NoPauseYet ==
  ASSUME NoStaleness, JobInv, QuotaInv, SyncInv, ~finishing, FirstTasks, OwnLock
  PROVE  ~RemoteStep /\ ~ProcessorEnds /\ ~StopRunning
<1> USE DEF JobInv, PipelineInv, ComponentsInv
<1>1. ~ProcessorEnds /\ ~StopRunning
  BY DEF ProcessorEnds, StopRunning, FirstTasks, ReapLoop
<1>2. ~PauseStarts
  <2> SUFFICES ASSUME PauseStarts PROVE FALSE
    OBVIOUS
  <2>1. remote = "pause" /\ lock = "free" /\ onLoop # "processor"
    BY DEF PauseStarts, KeepLock, LockFor, Runs
  <2>2. staleness < MaxRequiredSamples
    BY <2>1 DEF OwnLock
  <2>3. trainer = "version"
    BY <2>1 DEF TrainerInv, RemoteFollows
  <2>4. nextIndex = MaxRequiredSamples
    BY <2>3, AllIsConsumed DEF NoStaleness, CoordinatorIInv, MembersAreNumbered
  <2>5. nextIndex + Cardinality(Waiting) <= staleness
    BY DEF QuotaInv, Quota
  <2> QED
    BY <2>2, <2>4, <2>5, QuotaNumbers
<1> QED
  BY <1>1, <1>2 DEF RemoteStep, PauseClears, PauseReturns, UpdateStarts,
     UpdateResetsStaleness, UpdateReturns, Resume, FirstTasks

LEMMA BoundForGood ==
  ASSUME RollouterInv, [Next]_vars, ~doneTasksBound', ~finishing'
  PROVE  ~doneTasksBound /\ ~finishing
<1>1. doneTasksBound' = doneTasksBound \/ doneTasksBound' = TRUE
  BY RollouterSteps DEF RollouterNext, Feed, LockStep, WaitForLock,
     ProcessorStep, CheckPause, SetPaused, Sleep, Take, WaitForSample, Submit,
     ReapWait, ReapNoTasks, Reap, MonitorStep, MonitorTurn, MonitorCheck,
     MonitorResume, MonitorOnly, RemoteStep, PauseStarts, PauseClears,
     PauseReturns, UpdateStarts, UpdateResetsStaleness, UpdateReturns, Resume,
     RemoteOnly, TaskMoves, TaskAdmitted, TaskAdmissionTimesOut, TaskGenerated,
     TaskGenerationFails, TaskEnqueued, TaskStoppedEnqueuing, TaskStep,
     ProcessorEnds, StopRunning, CallRemote, rollouterVars, processorVars
<1>2. finishing => finishing'
  BY FinishingStays, TrainerSteps
     DEF trainerSide, trainerVars, MainStep, RemoteAlone,
         InitialSynchronisation, InitialSync, MoveTo, TrainerStep, Collect,
         CollectEnd, CollectSample, TrainerConsumes, ConsumedNext,
         TrainerAlone, Train, FinalValidation, FinalWait, StartSync, CallPause,
         SyncVersion, KeepVersion, VersionAdvanced, VersionRefused,
         TransferWeights, SyncWeights
<1> QED
  BY <1>1, <1>2

LEMMA StepKeepsFirst ==
  ASSUME NoStaleness
  PROVE  JobInv /\ QuotaInv /\ SyncInv /\ FirstTasksInv /\ [Next]_vars
           => FirstTasksInv'
<1> SUFFICES ASSUME JobInv, QuotaInv, SyncInv, FirstTasksInv, [Next]_vars,
                    ~doneTasksBound', ~finishing'
             PROVE  FirstTasks' /\ OwnLock'
  BY DEF FirstTasksInv
<1>0. RollouterInv /\ TrainerInv
  BY DEF JobInv, PipelineInv, ComponentsInv
<1>1. ~finishing /\ FirstTasks /\ OwnLock
  BY <1>0, BoundForGood DEF FirstTasksInv
<1>2. processor = "take" => staleness < MaxRequiredSamples
  BY <1>1 DEF QuotaInv, Quota
<1>3. ASSUME CallRemote("pause")  PROVE FirstTasks' /\ OwnLock'
  BY <1>1, <1>3 DEF CallRemote, FirstTasks, OwnLock, processorVars,
                    sampleTasks, lockVars
<1>4. ~CallRemote("update")
  <2>1. trainer # "weights" /\ remote # "update" /\ ~RemoteStep
    BY <1>0, <1>1, NoPauseYet DEF TrainerInv, RemoteFollows, FirstTasks
  <2>2. remote' # "update"
    BY <2>1, TrainerSteps DEF trainerSide, RemoteAlone, MainStep,
       InitialSynchronisation, OutsideMain, TrainerStep, Collect,
       TrainerConsumes, TrainerAlone, StartSync, CallRemote, SyncVersion,
       TransferWeights, SyncWeights, rollouterVars, otherVars
  <2> QED
    BY <2>2 DEF CallRemote
<1> QED
  BY <1>0, <1>1, <1>2, <1>3, <1>4, RollouterSteps, ProcessorKeepsFirst,
     OthersKeepFirst, NoPauseYet DEF RollouterNext

LEMMA FailedStays ==
  ASSUME RollouterInv, [Next]_vars
  PROVE  ~NothingFailed => (~NothingFailed)'
<1> SUFFICES ASSUME NEW s \in Samples, task[s] = "failed"
             PROVE  task'[s] = "failed"
  BY UnjudgedGrows DEF NothingFailed
<1> USE DEF RollouterInv, RollouterData, processorVars, sampleTasks
<1>1. CASE Submit
  <2>1. hand # s
    BY <1>1 DEF Submit, HandHeld, HoldsHand, TakenInOrder
  <2> QED
    BY <1>1, <2>1 DEF Submit
<1>2. CASE ProcessorStep /\ ~Submit
  BY <1>2 DEF ProcessorStep, CheckPause, SetPaused, Sleep, Take,
     WaitForSample, ReapWait, ReapNoTasks, Reap
<1>3. CASE Feed \/ LockStep \/ MonitorStep \/ RemoteStep
  BY <1>3 DEF Feed, LockStep, WaitForLock, MonitorStep, MonitorTurn,
     MonitorCheck, MonitorResume, MonitorOnly, RemoteStep, PauseStarts,
     PauseClears, PauseReturns, UpdateStarts, UpdateResetsStaleness,
     UpdateReturns, Resume, RemoteOnly
<1>4. ASSUME NEW x \in Samples, TaskMoves(x)  PROVE task'[s] = "failed"
  BY <1>4 DEF TaskMoves, TaskAdmitted, TaskAdmissionTimesOut, TaskGenerated,
     TaskGenerationFails, TaskEnqueued, TaskStoppedEnqueuing, TaskStep
<1>5. CASE \/ ProcessorEnds \/ StopRunning \/ UNCHANGED rollouterVars
           \/ \E call \in {"pause", "update"} : CallRemote(call)
  BY <1>5 DEF ProcessorEnds, StopRunning, CallRemote, rollouterVars
<1> QED
  BY <1>1, <1>2, <1>3, <1>4, <1>5, RollouterSteps DEF RollouterNext

LEMMA CrashSteps ==
  ASSUME RollouterInv, [Next]_vars, processor' = "crashed",
         processor # "crashed"
  PROVE  \E l \in ReapLoop : ReapNoTasks(l) \/ Reap(l)
<1> USE DEF RollouterInv, RollouterData, processorVars, sampleTasks
<1>1. CASE ProcessorStep
  BY <1>1 DEF ProcessorStep, CheckPause, SetPaused, Sleep, Take,
     WaitForSample, Submit, ReapWait, ReapOrGoOn, AfterReap, ReapLoop
<1>2. CASE MonitorStep \/ RemoteStep
  <2>1. NotifyAll \/ NotifyNobody
    BY <1>2 DEF MonitorStep, MonitorTurn, MonitorCheck, MonitorResume,
       LiftPause, LeavePause, NotifyNobody, RemoteStep, PauseStarts,
       PauseClears, PauseReturns, UpdateStarts, UpdateResetsStaleness,
       UpdateReturns, Resume
  <2> QED
    BY <2>1 DEF NotifyAll, NotifyNobody, WokenAs
<1>3. ASSUME NEW x \in Samples, TaskMoves(x)  PROVE FALSE
  BY <1>3 DEF TaskMoves, TaskAdmitted, TaskAdmissionTimesOut, TaskGenerated,
     TaskGenerationFails, TaskEnqueued, TaskStoppedEnqueuing, TaskStep
<1>4. ~(\/ Feed \/ LockStep \/ ProcessorEnds \/ StopRunning
        \/ UNCHANGED rollouterVars
        \/ \E call \in {"pause", "update"} : CallRemote(call))
  BY DEF Feed, LockStep, WaitForLock, ProcessorEnds, StopRunning, CallRemote,
         rollouterVars
<1> QED
  BY <1>1, <1>2, <1>3, <1>4, RollouterSteps DEF RollouterNext

(* The processor dies of a task that failed, and of nothing else.          *)
LEMMA StepKeepsCrash ==
  JobInv /\ EndInv /\ SurvivalInv /\ [Next]_vars => CrashedByTask'
<1> SUFFICES ASSUME JobInv, EndInv, SurvivalInv, [Next]_vars,
                    processor' = "crashed"
             PROVE  (~NothingFailed)'
  BY DEF CrashedByTask
<1>0. RollouterInv
  BY DEF JobInv, PipelineInv, ComponentsInv
<1> SUFFICES ~NothingFailed
  BY <1>0, FailedStays
<1>1. CASE processor = "crashed"
  BY <1>1 DEF SurvivalInv, CrashedByTask
<1>2. ASSUME NEW l \in ReapLoop, Reap(l)  PROVE ~NothingFailed
  BY <1>0, <1>2, ReapTypes
     DEF Reap, ReapLoop, NothingFailed, RollouterInv, RollouterData
<1>3. CASE unjudged # {}
  BY <1>3 DEF NothingFailed
<1>4. ASSUME unjudged = {}, NEW l \in ReapLoop, ReapNoTasks(l)  PROVE FALSE
  <2>1. ~doneTasksBound /\ active = {} /\ processor \in ReapLoop
    BY <1>4, ReapTypes DEF ReapNoTasks
  <2>2. finishing
    BY <2>1 DEF SurvivalInv, FirstTasksInv, FirstTasks
  <2>3. processor # "ended"
    BY <2>1 DEF ReapLoop
  <2> QED
    BY <1>4, <2>2, <2>3 DEF EndInv, EndReached, Finishing
<1> QED
  BY <1>0, <1>1, <1>2, <1>3, <1>4, CrashSteps

LEMMA InitSurvival == Init => SurvivalInv
<1> SUFFICES ASSUME Init PROVE SurvivalInv
  OBVIOUS
<1>1. \A s \in Samples : s \in Nat /\ s > 0
  BY RollouterAssumption DEF Samples
<1>2. 0 < MaxRequiredSamples
  BY RollouterAssumption
<1> QED
  BY <1>1, <1>2 DEF Init, RollouterInit, SurvivalInv, FirstTasksInv,
     FirstTasks, OwnLock, CrashedByTask, ReapLoop

(* While no generation fails and no judge raises the processor does not    *)
(* fail either: where the quota is what is trained on between two          *)
(* synchronisations and a window holds it, pause() never empties           *)
(* active_tasks under a processor whose done_tasks has no value yet.       *)
THEOREM SurvivalInvariant ==
  ASSUME Tied, NoStaleness
  PROVE  Spec => [](JobInv /\ QuotaInv /\ SyncInv /\ EndInv /\ SurvivalInv)
<1>1. JobInv /\ QuotaInv /\ EndInv /\ [Next]_vars => EndInv'
  BY StepKeepsEnd, StepKeepsRoom, UnjudgedGrows DEF EndInv
<1>2. JobInv /\ QuotaInv /\ SyncInv /\ EndInv /\ SurvivalInv /\ [Next]_vars
        => SurvivalInv'
  BY StepKeepsFirst, StepKeepsCrash DEF SurvivalInv
<1> QED
  BY <1>1, <1>2, InitEnd, InitSync, InitSurvival, StepKeepsSync,
     JobInvariant, QuotaInvariant, PTL DEF Spec

(* _streaming_generation_main goes on to the last sample, or dies of a      *)
(* task that raised: the processor meets no other error of its own.         *)
THEOREM ProcessorSurvivesWindows ==
  ASSUME Tied, NoStaleness
  PROVE  Spec => []ProcessorSurvives
<1>1. SurvivalInv => ProcessorSurvives
  BY DEF SurvivalInv, CrashedByTask, ProcessorSurvives
<1> QED
  BY <1>1, SurvivalInvariant, PTL

-----------------------------------------------------------------------------
(* What is lost.  Unless a task fails every sample is taken, and done once *)
(* the processor has ended.                                                *)
AllTaken ==
  /\ \A s \in Samples : s <= taken /\ s # hand => task[s] # "none"
  /\ \A s \in Samples : task[s] = "none" \/ Finished(s) \/ s \in active
  /\ processor \in {"final", "exited"} => taken = SampleCount
  /\ processor = "exited" => active = {}

AllDone ==
  processor = "ended" /\ NothingFailed => \A s \in Samples : task[s] = "ok"

LEMMA RollouterKeepsTaken ==
  ASSUME RollouterInv, AllTaken, [Next]_vars
  PROVE  AllTaken'
<1> USE DEF RollouterInv, RollouterData, processorVars, sampleTasks
<1>0. /\ SampleCount \in Nat /\ Samples = 1 .. SampleCount /\ NoSample = 0
      /\ taken \in Nat
  BY CountsAreNaturals DEF Samples, NoSample
<1>1. CASE Take
  <2>1. hand = NoSample
    BY <1>1 DEF Take, HandHeld, HoldsHand
  <2>2. \A s \in Samples : s <= taken => task[s] # "none"
    BY <1>0, <2>1 DEF AllTaken
  <2>3. /\ UNCHANGED <<task, active>>
        /\ \/ taken < SampleCount /\ taken' = taken + 1 /\ hand' = taken'
              /\ processor' = ReapOrGoOn("limit", active)
           \/ taken = SampleCount /\ UNCHANGED <<taken, hand>>
              /\ processor' = ReapOrGoOn("final", active)
    BY <1>1 DEF Take
  <2>4. \A s \in Samples : s <= taken' /\ s # hand' => task[s] # "none"
    BY <1>0, <2>2, <2>3
  <2>5. /\ processor' \in {"final", "exited"} => taken' = SampleCount
        /\ processor' = "exited" => active = {}
    BY <2>3 DEF ReapOrGoOn, ReapAgain, AfterReap
  <2> QED
    BY <2>3, <2>4, <2>5 DEF AllTaken, Finished
<1>2. CASE Submit
  <2>1. hand \in Samples
    BY <1>2 DEF Submit, HandHeld, HoldsHand
  <2> QED
    BY <1>0, <1>2, <2>1 DEF Submit, AllTaken, Finished
<1>3. ASSUME NEW l \in ReapLoop, Reap(l)  PROVE AllTaken'
  <2>1. /\ UNCHANGED <<taken, hand, task>>
        /\ active' = active \ {s \in active : Finished(s)}
        /\ \/ processor' = "crashed"
           \/ processor' = ReapOrGoOn(l, active')
    BY <1>3 DEF Reap
  <2>2. processor' \in {"final", "exited"} => processor = "final"
    BY <1>3, <2>1 DEF Reap, ReapOrGoOn, AfterReap, ReapLoop
  <2>3. processor' = "exited" => active' = {}
    BY <1>3, <2>1 DEF ReapOrGoOn, ReapAgain, AfterReap, ReapLoop
  <2> QED
    BY <2>1, <2>2, <2>3 DEF AllTaken, Finished
<1>4. ASSUME NEW l \in ReapLoop, ReapWait(l) \/ ReapNoTasks(l)
      PROVE  AllTaken'
  BY <1>4 DEF ReapWait, ReapNoTasks, AfterReap, ReapLoop, WaitsNow, GoesOn,
              AllTaken, Finished
<1>5. CASE CheckPause \/ SetPaused \/ Sleep \/ WaitForSample
  BY <1>5 DEF CheckPause, SetPaused, Sleep, WaitForSample, ReapOrGoOn,
              AfterReap, AllTaken, Finished
<1>6. CASE MonitorStep \/ (RemoteStep /\ ~PauseClears)
  <2>1. /\ NotifyAll \/ NotifyNobody
        /\ UNCHANGED <<taken, hand, task, active>>
    BY <1>6 DEF MonitorStep, MonitorTurn, MonitorCheck, MonitorResume,
       MonitorOnly, LiftPause, LeavePause, NotifyNobody, RemoteStep,
       RemoteOnly, PauseStarts, PauseReturns, UpdateStarts,
       UpdateResetsStaleness, UpdateReturns, Resume
  <2>2. processor' \in {"final", "exited"} => processor' = processor
    BY <2>1 DEF NotifyAll, NotifyNobody, WokenAs
  <2> QED
    BY <2>1, <2>2 DEF AllTaken, Finished
<1>7. CASE PauseClears
  BY <1>7 DEF PauseClears, RemoteOnly, AllTaken, Finished
<1>8. ASSUME NEW s \in Samples, TaskMoves(s)  PROVE AllTaken'
  <2>1. PICK to \in {"generating", "failed", "enqueue", "ok"} :
          /\ task[s] \notin {"none", "ok", "failed"}
          /\ task' = [task EXCEPT ![s] = to]
    BY <1>8 DEF TaskMoves, TaskAdmitted, TaskAdmissionTimesOut, TaskGenerated,
       TaskGenerationFails, TaskEnqueued, TaskStoppedEnqueuing, TaskStep
  <2>2. UNCHANGED <<taken, hand, processor, active>>
    BY <1>8 DEF TaskMoves, TaskAdmitted, TaskAdmissionTimesOut, TaskGenerated,
       TaskGenerationFails, TaskEnqueued, TaskStoppedEnqueuing, TaskStep
  <2> QED
    BY <2>1, <2>2 DEF AllTaken, Finished
<1>9. CASE \/ Feed \/ LockStep \/ ProcessorEnds \/ StopRunning
           \/ UNCHANGED rollouterVars
           \/ \E call \in {"pause", "update"} : CallRemote(call)
  BY <1>9 DEF Feed, LockStep, WaitForLock, ProcessorEnds, StopRunning,
     CallRemote, rollouterVars, AllTaken, Finished
<1> QED
  BY <1>1, <1>2, <1>3, <1>4, <1>5, <1>6, <1>7, <1>8, <1>9, RollouterSteps
     DEF RollouterNext, ProcessorStep

LEMMA RollouterKeepsDone ==
  ASSUME RollouterInv, CrashedByTask, AllTaken, AllDone, [Next]_vars
  PROVE  AllDone'
<1> SUFFICES ASSUME processor' = "ended", NothingFailed'
             PROVE  \A s \in Samples : task'[s] = "ok"
  BY DEF AllDone
<1>0. NothingFailed
  BY FailedStays
<1>1. CASE ProcessorEnds
  <2>1. processor = "exited" /\ task' = task
    BY <1>0, <1>1 DEF ProcessorEnds, CrashedByTask, sampleTasks
  <2>2. /\ taken = SampleCount /\ hand = NoSample /\ active = {}
    BY <2>1 DEF AllTaken, RollouterInv, HandHeld, HoldsHand
  <2>3. \A s \in Samples : s <= taken /\ s # hand
    BY <2>2, CountsAreNaturals DEF Samples, RollouterInv
  <2> QED
    BY <1>0, <2>1, <2>2, <2>3 DEF AllTaken, Finished, NothingFailed
<1>2. CASE processor = "ended"
  <2>1. \A s \in Samples : task[s] = "ok"
    BY <1>0, <1>2 DEF AllDone
  <2>2. ~ \E s \in Samples : TaskMoves(s)
    BY <2>1 DEF TaskMoves, TaskAdmitted, TaskAdmissionTimesOut, TaskGenerated,
       TaskGenerationFails, TaskEnqueued, TaskStoppedEnqueuing, TaskStep
  <2>3. task' = task
    BY <1>2, <2>2, RollouterSteps DEF RollouterNext, Feed, LockStep, WaitForLock,
       ProcessorStep, CheckPause, SetPaused, Sleep, Take, WaitForSample,
       Submit, ReapWait, ReapNoTasks, Reap, ReapLoop, MonitorStep, MonitorTurn,
       MonitorCheck, MonitorResume, MonitorOnly, RemoteStep, PauseStarts,
       PauseClears, PauseReturns, UpdateStarts, UpdateResetsStaleness,
       UpdateReturns, Resume, RemoteOnly, ProcessorEnds, StopRunning,
       CallRemote, rollouterVars, processorVars, sampleTasks
  <2> QED
    BY <2>1, <2>3
<1>3. CASE processor # "ended" /\ ~ProcessorEnds
  <2>1. NotifyAll \/ NotifyNobody => processor' # "ended"
    BY <1>3 DEF NotifyAll, NotifyNobody, WokenAs
  <2>2. ~MonitorStep /\ ~RemoteStep
    BY <2>1 DEF MonitorStep, MonitorTurn, MonitorCheck, MonitorResume,
       LiftPause, LeavePause, NotifyNobody, RemoteStep, PauseStarts,
       PauseClears, PauseReturns, UpdateStarts, UpdateResetsStaleness,
       UpdateReturns, Resume
  <2>3. ~ProcessorStep
    BY <1>3 DEF ProcessorStep, CheckPause, SetPaused, Sleep, Take,
       WaitForSample, Submit, ReapWait, ReapNoTasks, Reap, ReapOrGoOn,
       AfterReap, ReapLoop, processorVars
  <2>4. ~ \E s \in Samples : TaskMoves(s)
    BY <1>3 DEF TaskMoves, TaskAdmitted, TaskAdmissionTimesOut, TaskGenerated,
       TaskGenerationFails, TaskEnqueued, TaskStoppedEnqueuing, TaskStep,
       processorVars
  <2> QED
    BY <1>3, <2>2, <2>3, <2>4, RollouterSteps DEF RollouterNext, Feed,
       LockStep, WaitForLock, StopRunning, CallRemote, rollouterVars,
       processorVars
<1> QED
  BY <1>1, <1>2, <1>3

-----------------------------------------------------------------------------
(* The end marker is the last in either queue, and what the dispatcher ends *)
(* with is no judgement pending.                                            *)
EndIsLast(q) == \A i \in DOMAIN q : q[i] = EndMarker => i = Len(q)

LEMMA AppendKeepsLast ==
  ASSUME NEW S, NEW q \in Seq(S), NEW x \in S, ~InSeq(q, EndMarker)
  PROVE  EndIsLast(Append(q, x))
<1> DEFINE r == Append(q, x)
<1>1. /\ r \in Seq(S) /\ Len(r) = Len(q) + 1
      /\ \A i \in 1 .. Len(q) : r[i] = q[i]
  BY AppendProperties
<1>2. DOMAIN q = 1 .. Len(q) /\ DOMAIN r = 1 .. Len(q) + 1 /\ Len(q) \in Nat
  BY <1>1, LenProperties
<1>3. ASSUME NEW i \in DOMAIN r, r[i] = EndMarker  PROVE i = Len(r)
  <2>1. i \notin DOMAIN q
    BY <1>1, <1>2, <1>3 DEF InSeq
  <2> QED
    BY <1>1, <1>2, <2>1
<1> QED
  BY <1>3 DEF EndIsLast

LEMMA TailKeepsLast ==
  ASSUME NEW S, NEW q \in Seq(S), q # <<>>, EndIsLast(q)
  PROVE  /\ EndIsLast(Tail(q))
         /\ Head(q) = EndMarker => Tail(q) = <<>>
<1> DEFINE r == Tail(q)
<1>1. /\ r \in Seq(S) /\ Len(r) = Len(q) - 1
      /\ \A i \in 1 .. Len(r) : r[i] = q[i + 1]
  BY HeadTailProperties
<1>2. /\ DOMAIN q = 1 .. Len(q) /\ DOMAIN r = 1 .. Len(r)
      /\ Len(q) \in Nat /\ Len(q) # 0
  BY <1>1, LenProperties, EmptySeq
<1>3. ASSUME NEW i \in DOMAIN r, r[i] = EndMarker  PROVE i = Len(r)
  <2>1. i + 1 \in DOMAIN q /\ q[i + 1] = EndMarker
    BY <1>1, <1>2, <1>3
  <2>2. i + 1 = Len(q)
    BY <2>1 DEF EndIsLast
  <2> QED
    BY <1>1, <1>2, <2>2
<1>4. ASSUME Head(q) = EndMarker  PROVE r = <<>>
  <2>1. 1 \in DOMAIN q /\ q[1] = EndMarker
    BY <1>2, <1>4
  <2>2. 1 = Len(q)
    BY <2>1 DEF EndIsLast
  <2> HIDE DEF r
  <2>3. Len(r) = 0
    BY <1>1, <1>2, <2>2
  <2> QED
    BY <1>1, <2>3, EmptySeq
<1> QED
  BY <1>3, <1>4 DEF EndIsLast

NothingPending ==
  scored = {} /\ unscored = {} /\ \A w \in Workers : judging[w] = <<>>

EndInOrder ==
  /\ EndIsLast(rawQueue) /\ EndIsLast(scoredQueue)
  /\ upstreamDone => rawQueue = <<>>
  /\ dispatcher \in {"end", "exited"} => upstreamDone /\ NothingPending
  /\ InSeq(scoredQueue, EndMarker) \/ Finishing => dispatcher = "exited"
  /\ Finishing => scoredQueue = <<>>

LEMMA PendingIsEmpty ==
  ASSUME DispatcherData, Pending = {}
  PROVE  NothingPending
<1>1. scored = {} /\ unscored = {}
  BY DEF Pending
<1>2. ASSUME NEW w \in Workers  PROVE judging[w] = <<>>
  <2>1. judging[w] \in Seq(Samples)
    BY DEF DispatcherData
  <2>2. {judging[w][i] : i \in DOMAIN judging[w]} \subseteq Pending
    BY DEF Pending
  <2>3. DOMAIN judging[w] = {}
    BY <2>2
  <2>4. Len(judging[w]) \in Nat /\ 1 \notin 1 .. Len(judging[w])
    BY <2>1, <2>3, LenProperties
  <2>5. Len(judging[w]) = 0
    BY <2>4
  <2> QED
    BY <2>1, <2>5, EmptySeq
<1> QED
  BY <1>1, <1>2 DEF NothingPending

(* Nothing is put into the raw queue after the end marker.                 *)
LEMMA RawKeepsOrder ==
  ASSUME JobInv, EndInv, AllDone, NothingFailed, EndInOrder, NEW x \in Items,
         PutRaw(x), processor # "ended", UNCHANGED trainerVars
  PROVE  EndInOrder'
<1>1. ~InSeq(rawQueue, EndMarker) /\ ~upstreamDone
  BY DEF EndInv, EndReached, NothingFailed
<1>2. rawQueue \in Seq(Items)
  BY DEF JobInv, PipelineInv, ComponentsInv, DispatcherData
<1>3. EndIsLast(rawQueue')
  BY <1>1, <1>2, AppendKeepsLast DEF PutRaw
<1> QED
  BY <1>1, <1>3 DEF PutRaw, JudgingOnly, judgeVars, dispatcherVars,
     trainerVars, EndInOrder, NothingPending, Finishing, InSeq

LEMMA DispatcherKeepsOrder ==
  ASSUME JobInv, EndInv, NothingFailed, EndInOrder, [Next]_vars,
         \/ DispatcherStep
         \/ \E w \in Workers : Judge(w)
  PROVE  EndInOrder'
<1> USE DEF JobInv, PipelineInv, ComponentsInv, InSeq
<1>0. /\ UNCHANGED <<trainer, finishing>>
      /\ rawQueue \in Seq(Items) /\ scoredQueue \in Seq(Items)
      /\ payload \in Items /\ EndMarker \in Items
  BY DEF DispatcherStep, DispatcherAlone, DispatcherMarks, Judge,
         OutsideJudging, trainerVars, DispatcherData, Items
<1>1. ASSUME NEW w \in Workers, Judge(w)  PROVE EndInOrder'
  <2>1. ~NothingPending
    BY <1>1 DEF Judge, JudgeFinishes, NothingPending
  <2> QED
    BY <1>0, <1>1, <2>1 DEF Judge, JudgeFinishes, dispatcherVars, EndInOrder,
                            Finishing
<1>2. CASE Pull
  <2>1. EndIsLast(Tail(rawQueue))
        /\ (Head(rawQueue) = EndMarker => Tail(rawQueue) = <<>>)
    BY <1>0, <1>2, TailKeepsLast DEF Pull, EndInOrder
  <2> QED
    BY <1>0, <1>2, <2>1 DEF Pull, EndInOrder, Finishing
<1>3. CASE PullNothing
  BY <1>0, <1>3 DEF PullNothing, judgeVars, EndInOrder, NothingPending,
                    Finishing
<1>4. ASSUME NEW s \in Samples, ReapScore(s)  PROVE EndInOrder'
  <2>1. dispatcher' \notin {"end", "exited"} /\ dispatcher = "reap"
    BY <1>4 DEF ReapScore, AfterError
  <2> QED
    BY <1>0, <1>4, <2>1 DEF ReapScore, EndInOrder, Finishing
<1>5. CASE ReapNothing
  <2>1. dispatcher' = "end" => upstreamDone /\ NothingPending
    BY <1>5, PendingIsEmpty DEF ReapNothing, NothingLeft
  <2> QED
    BY <1>0, <1>5, <2>1 DEF ReapNothing, judgeVars, EndInOrder,
                            NothingPending, Finishing
<1>6. CASE Publish
  <2>1. ~InSeq(scoredQueue, EndMarker) /\ ~Finishing
    BY <1>6 DEF Publish, EndInOrder
  <2>2. payload # EndMarker
    BY <1>6 DEF Publish, PlacesInv, MarkedIsPast
  <2>3. scoredQueue' = Append(scoredQueue, payload)
    BY <1>6 DEF Publish, HasRoom, PutNowait
  <2>4. EndIsLast(scoredQueue') /\ ~InSeq(scoredQueue', EndMarker)
    <3> HIDE DEF InSeq
    <3> QED
      BY <1>0, <2>1, <2>2, <2>3, AppendKeepsLast, InAppend
  <2> QED
    BY <1>0, <1>6, <2>1, <2>4 DEF Publish, judgeVars, EndInOrder,
                                  NothingPending, Finishing
<1>7. CASE DispatcherMarks
  BY <1>0, <1>7 DEF DispatcherMarks, Marked, AfterError, judgeVars,
                    EndInOrder, NothingPending, Finishing
<1>8. CASE PublishEnd
  <2>1. dispatcher = "end" /\ dispatcher' = "exited"
    BY <1>8 DEF PublishEnd, EndInv, EndReached, NothingFailed
  <2>2. ~InSeq(scoredQueue, EndMarker) /\ ~Finishing
    BY <2>1 DEF EndInOrder
  <2>3. scoredQueue' = Append(scoredQueue, EndMarker)
    BY <1>8 DEF PublishEnd, HasRoom, PutNowait
  <2>4. EndIsLast(scoredQueue')
    BY <1>0, <2>2, <2>3, AppendKeepsLast
  <2> QED
    BY <1>0, <1>8, <2>1, <2>2, <2>4 DEF PublishEnd, judgeVars, EndInOrder,
                                        NothingPending, Finishing
<1> QED
  BY <1>1, <1>2, <1>3, <1>4, <1>5, <1>6, <1>7, <1>8
     DEF DispatcherStep, DispatcherAlone

LEMMA CollectKeepsOrder ==
  ASSUME JobInv, EndInOrder, Collect
  PROVE  EndInOrder'
<1>0. /\ scoredQueue \in Seq(Items) /\ scoredQueue # <<>>
      /\ scoredQueue' = Tail(scoredQueue) /\ ~Finishing /\ Distinct(scoredQueue)
  BY DEF JobInv, PipelineInv, ComponentsInv, DispatcherData, Collect,
     CollectEnd, CollectSample, TrainerInv, VersionsAgree, Finishing,
     PlacesInv, QueuedOnceEach
<1>1. /\ EndIsLast(scoredQueue')
      /\ Head(scoredQueue) = EndMarker => scoredQueue' = <<>>
  BY <1>0, TailKeepsLast DEF EndInOrder
<1>2. /\ InSeq(scoredQueue', EndMarker) => InSeq(scoredQueue, EndMarker)
      /\ InSeq(scoredQueue, Head(scoredQueue))
  BY <1>0, InTail
<1>3. Finishing' => Head(scoredQueue) = EndMarker
  BY <1>0 DEF Collect, CollectSample, CollectEnd, Finishing
<1> QED
  BY <1>0, <1>1, <1>2, <1>3 DEF Collect, OutsideTrainer, judgeVars,
     dispatcherVars, EndInOrder, NothingPending

LEMMA QuietKeepsOrder ==
  ASSUME EndInOrder, UNCHANGED pipelineVars, Finishing' => Finishing
  PROVE  EndInOrder'
BY DEF EndInOrder, pipelineVars, queues, judgeVars, dispatcherVars,
       NothingPending, InSeq

LEMMA StepKeepsOrder ==
  ASSUME JobInv, EndInv, AllDone, NothingFailed, EndInOrder, [Next]_vars
  PROVE  EndInOrder'
<1> USE DEF queues, pipelineVars, judgeVars, dispatcherVars, trainerVars,
            Finishing
<1>1. CASE InitialSynchronisation \/ MainStep \/ RollouterAlone
           \/ RollouterStops \/ UNCHANGED vars
  BY <1>1, QuietKeepsOrder DEF InitialSynchronisation, InitialSync, MoveTo,
     MainStep, OutsideMain, RollouterAlone, RollouterStops, OutsideTasks, vars
<1>2. ASSUME NEW s \in Samples,
             \/ Admit(s) \/ AdmissionTimesOut(s) \/ Generated(s)
             \/ GenerationFails(s)
      PROVE  EndInOrder'
  BY <1>2, QuietKeepsOrder DEF Admit, AdmissionTimesOut, Generated,
     GenerationFails, OutsideTasks
<1>3. ASSUME NEW s \in Samples, EnqueueRaw(s)  PROVE EndInOrder'
  <2>1. processor # "ended"
    BY <1>3 DEF EnqueueRaw, TaskEnqueued, TaskStoppedEnqueuing, TaskStep,
                AllDone
  <2>2. CASE UNCHANGED rawQueue
    BY <1>3, <2>2, QuietKeepsOrder DEF EnqueueRaw, OutsideTasks
  <2>3. CASE PutRaw(s) /\ UNCHANGED trainerVars
    BY <2>1, <2>3, RawKeepsOrder DEF Items
  <2> QED
    BY <1>3, <2>2, <2>3 DEF EnqueueRaw, PutNowait, PutRaw, JudgingOnly,
                            OutsideTasks
<1>4. CASE EndGeneration
  <2>1. processor # "ended"
    BY <1>4 DEF EndGeneration, ProcessorEnds
  <2>2. PutRaw(EndMarker) /\ UNCHANGED trainerVars
    BY <1>4 DEF EndGeneration, PutNowait, HasRoom, PutRaw, JudgingOnly,
                OutsideTasks
  <2> QED
    BY <2>1, <2>2, RawKeepsOrder DEF Items
<1>5. CASE TrainerStep /\ ~Collect
  BY <1>5, QuietKeepsOrder DEF TrainerStep, TrainerConsumes, ConsumedNext,
     TrainerAlone, Train, FinalValidation, FinalWait, StartSync, CallPause,
     SyncVersion, KeepVersion, VersionAdvanced, VersionRefused, TransferWeights,
     SyncWeights, MoveTo, OutsideTrainer
<1>6. CASE DispatcherStep \/ \E w \in Workers : Judge(w)
  BY <1>6, DispatcherKeepsOrder
<1> QED
  BY <1>1, <1>2, <1>3, <1>4, <1>5, <1>6, CollectKeepsOrder DEF Next, TaskProgress

-----------------------------------------------------------------------------
(* Training takes whole batches, and at the end less than one is left.     *)
TrainedSamples == {s \in Samples : Trained(s)}
Untrained == {s \in Samples : ~Trained(s)}
InBatch == {batch[i] : i \in DOMAIN batch}

WholeBatches ==
  \E k \in Nat : Cardinality(TrainedSamples) = k * RequiredSamples

LessThanBatch ==
  Finishing /\ NothingFailed => Cardinality(Untrained) < RequiredSamples

ReturnsFinished == main = "returned" => Finishing

LEMMA BatchIsCounted ==
  ASSUME batch \in Seq(Samples)
  PROVE  /\ IsFiniteSet(InBatch) /\ Cardinality(InBatch) \in Nat
         /\ InBatch \subseteq Samples
         /\ Cardinality(InBatch) <= Len(batch)
         /\ Distinct(batch) => Cardinality(InBatch) = Len(batch)
<1> DEFINE n == Len(batch)
<1>1. /\ DOMAIN batch = 1 .. n /\ n \in Nat
      /\ batch \in [1 .. n -> Samples]
  BY LenProperties
<1>2. InBatch \subseteq Samples
  BY <1>1 DEF InBatch
<1>3. IsFiniteSet(1 .. n) /\ Cardinality(1 .. n) = n
  <2>1. 1 \in Int /\ n \in Int /\ (1 > n => n = 0) /\ n - 1 + 1 = n
    BY <1>1
  <2> HIDE DEF n
  <2> QED
    BY ONLY <2>1, FS_Interval
<1>4. batch \in Surjection(1 .. n, InBatch)
  BY <1>1 DEF Surjection, InBatch
<1>5. IsFiniteSet(InBatch) /\ Cardinality(InBatch) <= n
  BY <1>3, <1>4, FS_Surjection
<1>6. ASSUME Distinct(batch)  PROVE Cardinality(InBatch) = n
  <2>1. \A i, j \in 1 .. n : batch[i] = batch[j] => i = j
    BY <1>1, <1>6, SampleIsNoMarker DEF Distinct
  <2>2. batch \in Bijection(1 .. n, InBatch)
    BY <1>4, <2>1 DEF Bijection, Injection, IsInjective, Surjection
  <2>3. ExistsBijection(1 .. n, InBatch)
    BY <2>2, Fun_ExistsBij
  <2> QED
    BY <1>3, <1>5, <2>3, FS_Bijection
<1> QED
  BY <1>2, <1>5, <1>6, FS_CardinalityType

LEMMA TrainKeepsWhole ==
  ASSUME JobInv, WholeBatches, Train
  PROVE  WholeBatches'
<1> USE DEF JobInv, PipelineInv, ComponentsInv
<1>1. /\ batch \in Seq(Samples) /\ Distinct(batch)
      /\ Len(batch) = RequiredSamples
  BY DEF TrainerInv, TrainerData, BatchFills, Train, PlacesInv, QueuedOnceEach
<1>2. /\ IsFiniteSet(InBatch) /\ Cardinality(InBatch) = RequiredSamples
      /\ InBatch \subseteq Samples
  BY <1>1, BatchIsCounted
<1>3. \A s : InSeq(batch, s) <=> s \in InBatch
  BY DEF InSeq, InBatch
<1>4. TrainedSamples' = TrainedSamples \union InBatch
  BY <1>2, <1>3, TrainedGrows DEF TrainedSamples
<1>5. TrainedSamples \intersect InBatch = {}
  BY <1>2, <1>3 DEF TrainedSamples, PlacesInv, OneStageEach, At, Stages
<1>6. IsFiniteSet(TrainedSamples) /\ Cardinality(TrainedSamples) \in Nat
  BY SamplesAreFinite DEF TrainedSamples
<1>7. Cardinality(TrainedSamples') = Cardinality(TrainedSamples) + RequiredSamples
  <2>1. Cardinality(TrainedSamples \intersect InBatch) = 0
    BY <1>5, FS_EmptySet
  <2>2. Cardinality(TrainedSamples \union InBatch) =
          Cardinality(TrainedSamples) + Cardinality(InBatch)
            - Cardinality(TrainedSamples \intersect InBatch)
    BY <1>2, <1>6, FS_Union
  <2> QED
    BY <1>2, <1>4, <1>6, <2>1, <2>2, TrainerNumbers
<1>8. PICK k \in Nat : Cardinality(TrainedSamples) = k * RequiredSamples
  BY DEF WholeBatches
<1>9. k + 1 \in Nat /\ (k + 1) * RequiredSamples
                         = k * RequiredSamples + RequiredSamples
  BY TrainerNumbers
<1> QED
  BY <1>7, <1>8, <1>9 DEF WholeBatches, Train

(* A batch is given up at the end only. *)
GivenUpAtEnd == givenUp # {} => Finishing

LEMMA StepKeepsGivenUp == [Next]_vars /\ GivenUpAtEnd => GivenUpAtEnd'
<1> SUFFICES ASSUME [Next]_vars PROVE givenUp' = givenUp \/ Finishing'
  BY FinishingStays DEF GivenUpAtEnd
<1>1. CASE UNCHANGED trainerSide
  BY <1>1 DEF trainerSide, trainerVars
<1>2. CASE InitialSynchronisation \/ MainStep \/ RemoteAlone
  BY <1>2 DEF InitialSynchronisation, InitialSync, MoveTo, MainStep,
     RemoteAlone, trainerVars
<1>3. CASE TrainerStep
  BY <1>3 DEF TrainerStep, Collect, CollectEnd, CollectSample, TrainerConsumes,
     ConsumedNext, TrainerAlone, Train, FinalValidation, FinalWait, StartSync,
     CallPause, SyncVersion, KeepVersion, VersionAdvanced, VersionRefused,
     TransferWeights, SyncWeights, MoveTo, Finishing
<1> QED
  BY <1>1, <1>2, <1>3, TrainerSteps

(* When the end marker arrives every sample is trained or in the batch.    *)
LEMMA CollectLeavesRest ==
  ASSUME JobInv, EndInv, AllDone, EndInOrder, GivenUpAtEnd, NothingFailed,
         Collect, Head(scoredQueue) = EndMarker
  PROVE  Cardinality(Untrained) < RequiredSamples
<1> USE DEF JobInv, PipelineInv, ComponentsInv
<1>0. /\ scoredQueue \in Seq(Items) /\ scoredQueue # <<>>
      /\ trainer = "collect" /\ ~Finishing /\ Distinct(scoredQueue)
      /\ batch \in Seq(Samples) /\ Len(batch) < RequiredSamples
  BY DEF DispatcherData, Collect, CollectEnd, CollectSample, TrainerInv,
     TrainerData, BatchFills, VersionsAgree, Finishing, PlacesInv,
     QueuedOnceEach
<1>1. /\ dispatcher = "exited" /\ upstreamDone /\ rawQueue = <<>>
      /\ NothingPending
  BY <1>0, InTail DEF EndInOrder
<1>2. Tail(scoredQueue) = <<>>
  BY <1>0, TailKeepsLast DEF EndInOrder
<1>3. \A s \in Samples : task[s] = "ok"
  BY <1>1 DEF EndInv, EndReached, AllDone, NothingFailed
<1>4. ASSUME NEW s \in Samples, ~Trained(s)  PROVE s \in InBatch
  <2>1. PICK p \in Stages : At(p, s)
    BY <1>0, <1>3 DEF PlacesInv, OneStageEach
  <2>2. \A x : ~InSeq(<<>>, x)
    BY DEF InSeq
  <2>3. ~InSeq(rawQueue, s) /\ \A w \in Workers : ~InSeq(judging[w], s)
    BY <1>1, <2>2 DEF NothingPending
  <2>4. ~InSeq(scoredQueue, s)
    <3>1. s # EndMarker /\ ~InSeq(Tail(scoredQueue), s)
      BY <1>2, <2>2, SampleIsNoMarker
    <3>2. InSeq(Tail(scoredQueue), s)
            <=> InSeq(scoredQueue, s) /\ s # Head(scoredQueue)
      BY <1>0, <3>1, InTail
    <3> QED
      BY <3>1, <3>2
  <2>5. unjudged = {} /\ givenUp = {} /\ scored = {} /\ unscored = {}
    BY <1>0, <1>1 DEF NothingFailed, GivenUpAtEnd, NothingPending
  <2>6. InSeq(batch, s)
    BY <1>1, <1>4, <2>1, <2>3, <2>4, <2>5 DEF At, Stages, Early
  <2> QED
    BY <2>6 DEF InSeq, InBatch
<1>5. Untrained \subseteq InBatch
  BY <1>4 DEF Untrained
<1>6. /\ Cardinality(Untrained) <= Cardinality(InBatch)
      /\ Cardinality(Untrained) \in Nat /\ Cardinality(InBatch) \in Nat
      /\ Cardinality(InBatch) <= Len(batch) /\ Len(batch) \in Nat
  BY <1>0, <1>5, BatchIsCounted, FS_Subset, FS_CardinalityType, LenProperties
<1> QED
  BY <1>0, <1>6, TrainerNumbers

LEMMA StepKeepsCounts ==
  ASSUME JobInv, EndInv, AllDone, NothingFailed => EndInOrder, GivenUpAtEnd,
         WholeBatches, LessThanBatch, ReturnsFinished, [Next]_vars
  PROVE  WholeBatches' /\ LessThanBatch' /\ ReturnsFinished'
<1>0. RollouterInv /\ TrainerInv
  BY DEF JobInv, PipelineInv, ComponentsInv
<1>1. /\ NothingFailed' => NothingFailed
      /\ Finishing => Finishing'
  BY <1>0, FailedStays, FinishingStays
<1>2. ASSUME UNCHANGED trained, Finishing' => Finishing
      PROVE  WholeBatches' /\ LessThanBatch'
  BY <1>1, <1>2 DEF WholeBatches, LessThanBatch, TrainedSamples, Untrained,
                    Trained
<1>3. CASE Running /\ TrainerStep /\ ~Collect /\ ~Train
  BY <1>1, <1>2, <1>3 DEF TrainerStep, TrainerConsumes, ConsumedNext,
     TrainerAlone, FinalValidation, FinalWait, StartSync, CallPause,
     SyncVersion, KeepVersion, VersionAdvanced, VersionRefused, TransferWeights,
     SyncWeights, MoveTo, Finishing, OutsideTrainer, Running, jobVars,
     ReturnsFinished
<1>4. CASE Running /\ TrainerStep /\ Train
  <2>1. WholeBatches'
    BY <1>4, TrainKeepsWhole
  <2>2. ~Finishing' /\ main' # "returned"
    <3>1. main' = main
      BY <1>4 DEF TrainerStep, Collect, TrainerConsumes, TrainerAlone,
         StartSync, SyncVersion, TransferWeights, OutsideTrainer, jobVars
    <3> QED
      BY <1>0, <1>4, <3>1 DEF Train, Running, TrainerInv, VersionsAgree,
                              Finishing
  <2> QED
    BY <2>1, <2>2 DEF LessThanBatch, ReturnsFinished
<1>5. CASE Running /\ Collect
  <2>1. trained' = trained /\ main' # "returned"
    BY <1>5 DEF Collect, CollectEnd, CollectSample, OutsideTrainer, Running,
                jobVars
  <2>2. CASE Head(scoredQueue) = EndMarker
    <3>1. NothingFailed => Cardinality(Untrained) < RequiredSamples
      BY <1>5, <2>2, CollectLeavesRest
    <3> QED
      BY <1>1, <2>1, <3>1 DEF WholeBatches, LessThanBatch, ReturnsFinished,
         TrainedSamples, Untrained, Trained
  <2>3. CASE Head(scoredQueue) # EndMarker
    BY <1>2, <1>5, <2>1, <2>3 DEF Collect, CollectSample, Finishing,
                                  ReturnsFinished
  <2> QED
    BY <2>2, <2>3
<1>6. CASE InitialSynchronisation
  BY <1>2, <1>6 DEF InitialSynchronisation, InitialSync, MoveTo, Finishing,
                    ReturnsFinished
<1>7. CASE Running /\ MainStep
  BY <1>0, <1>2, <1>7 DEF MainStep, MainReturns, MainRaises, trainerVars,
     Finishing, Running, ReturnsFinished, TrainerInv, VersionsAgree
<1>8. CASE RemoteAlone \/ UNCHANGED trainerSide
  BY <1>2, <1>8 DEF RemoteAlone, trainerSide, trainerVars, Finishing,
                    ReturnsFinished
<1> QED
  BY <1>3, <1>4, <1>5, <1>6, <1>7, <1>8, TrainerSteps
     DEF TrainerStep

RestInv ==
  /\ AllTaken /\ AllDone
  /\ NothingFailed => EndInOrder
  /\ GivenUpAtEnd /\ WholeBatches /\ LessThanBatch /\ ReturnsFinished

LEMMA StepKeepsRest ==
  JobInv /\ EndInv /\ CrashedByTask /\ RestInv /\ [Next]_vars => RestInv'
<1> SUFFICES ASSUME JobInv, EndInv, CrashedByTask, RestInv, [Next]_vars
             PROVE  RestInv'
  OBVIOUS
<1>0. RollouterInv
  BY DEF JobInv, PipelineInv, ComponentsInv
<1>1. NothingFailed' => NothingFailed
  BY <1>0, FailedStays
<1>2. AllTaken' /\ AllDone'
  BY <1>0, RollouterKeepsTaken, RollouterKeepsDone DEF RestInv
<1>3. NothingFailed' => EndInOrder'
  BY <1>1, StepKeepsOrder DEF RestInv
<1>4. /\ GivenUpAtEnd'
      /\ WholeBatches' /\ LessThanBatch' /\ ReturnsFinished'
  BY StepKeepsGivenUp, StepKeepsCounts DEF RestInv
<1> QED
  BY <1>2, <1>3, <1>4 DEF RestInv

LEMMA InitRest == Init => RestInv
<1> SUFFICES ASSUME Init PROVE RestInv
  OBVIOUS
<1>0. /\ taken = 0 /\ task = [s \in Samples |-> "none"]
      /\ processor = "loop" /\ rawQueue = <<>> /\ scoredQueue = <<>>
      /\ upstreamDone = FALSE /\ dispatcher = "pull" /\ ~Finishing
      /\ trained = {} /\ givenUp = {} /\ main = "initialising"
  BY DEF Init, RollouterInit, DispatcherInit, TrainerInit, Finishing
<1>1. \A s \in Samples : s \in Nat /\ ~(s <= 0)
  BY RollouterAssumption DEF Samples
<1>2. AllTaken /\ AllDone
  BY <1>0, <1>1 DEF AllTaken, AllDone
<1>3. EndInOrder
  BY <1>0 DEF EndInOrder, EndIsLast, InSeq
<1>4. WholeBatches
  <2>1. TrainedSamples = {}
    BY <1>0 DEF TrainedSamples, Trained
  <2>2. 0 * RequiredSamples = 0
    BY TrainerNumbers
  <2> QED
    BY <2>1, <2>2, FS_EmptySet DEF WholeBatches
<1> QED
  BY <1>0, <1>2, <1>3, <1>4 DEF RestInv, GivenUpAtEnd, LessThanBatch,
                                ReturnsFinished

LEMMA Remainder ==
  ASSUME NEW d \in Nat \ {0}, NEW k \in Nat, NEW r \in Nat, r < d
  PROVE  (k * d + r) % d = r
<1>1. k * d \in Nat /\ k * d + r \in Nat
  OBVIOUS
<1> DEFINE n == k * d + r
           q == n \div d
           m == n % d
<1>2. q \in Int /\ m \in 0 .. d - 1 /\ n = d * q + m
  BY <1>1, SMTT(30)
<1> HIDE DEF q, m
<1>3. d * k + r = d * q + m
  BY <1>2
<1>4. d * (k - q) = m - r
  BY <1>2, <1>3, SMTT(30)
<1>5. k = q
  <2>1. CASE k - q >= 1
    <3>1. d * (k - q) >= d
      BY <1>2, <2>1, SMTT(30)
    <3> QED
      BY <1>2, <1>4, <3>1
  <2>2. CASE k - q <= -1
    <3>1. d * (k - q) <= -d
      BY <1>2, <2>2, SMTT(30)
    <3> QED
      BY <1>2, <1>4, <3>1
  <2> QED
    BY <1>2, <2>1, <2>2
<1>6. m = r
  BY <1>2, <1>3, <1>5
<1> QED
  BY <1>6 DEF m

(* If nothing has failed, the job that returns has trained on every sample *)
(* but the remainder of a division by the batch's size: no sample is lost  *)
(* in a queue, with a judge or behind the end marker.                      *)
THEOREM OnlyRemainderIsUntrained ==
  ASSUME Tied, NoStaleness
  PROVE  Spec => []OnlyRemainderIsLost
<1>1. JobInv /\ EndInv /\ SurvivalInv /\ RestInv /\ [Next]_vars => RestInv'
  BY StepKeepsRest DEF SurvivalInv
<1>2. RestInv => OnlyRemainderIsLost
  <2> SUFFICES ASSUME RestInv, main = "returned", NothingFailed
               PROVE  Cardinality(Untrained) = SampleCount % RequiredSamples
    BY DEF OnlyRemainderIsLost, Untrained
  <2>1. PICK k \in Nat : Cardinality(TrainedSamples) = k * RequiredSamples
    BY DEF RestInv, WholeBatches
  <2>2. Cardinality(Untrained) < RequiredSamples
    BY DEF RestInv, LessThanBatch, ReturnsFinished
  <2>3. /\ IsFiniteSet(TrainedSamples) /\ IsFiniteSet(Untrained)
        /\ Cardinality(TrainedSamples) \in Nat /\ Cardinality(Untrained) \in Nat
    BY SamplesAreFinite DEF TrainedSamples, Untrained
  <2>4. /\ TrainedSamples \union Untrained = Samples
        /\ TrainedSamples \intersect Untrained = {}
    BY DEF TrainedSamples, Untrained
  <2>5. Cardinality(Samples) = SampleCount
    BY RollouterAssumption, FS_Interval DEF Samples
  <2>6. SampleCount = Cardinality(TrainedSamples) + Cardinality(Untrained)
    <3>1. Cardinality(TrainedSamples \intersect Untrained) = 0
      BY <2>4, FS_EmptySet
    <3>2. Cardinality(TrainedSamples \union Untrained) =
            Cardinality(TrainedSamples) + Cardinality(Untrained)
              - Cardinality(TrainedSamples \intersect Untrained)
      BY <2>3, FS_Union
    <3>3. Cardinality(TrainedSamples \union Untrained) = SampleCount
      BY <2>4, <2>5
    <3> QED
      BY <2>3, <3>1, <3>2, <3>3
  <2>7. RequiredSamples \in Nat \ {0}
    BY TrainerNumbers
  <2> QED
    BY <2>1, <2>2, <2>3, <2>6, <2>7, Remainder
<1> QED
  BY <1>1, <1>2, InitRest, SurvivalInvariant, PTL DEF Spec
=============================================================================
