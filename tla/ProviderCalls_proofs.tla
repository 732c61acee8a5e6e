------------------------- MODULE ProviderCalls_proofs -------------------------
(***************************************************************************)
(* The safety of BoundedRequestScheduler, for any number of workers and    *)
(* callers, any capacity and either order of the heap, and that of the     *)
(* requests shared above it, for any threads and fingerprints.             *)
(*                                                                         *)
(* The scheduler's inductive invariant adds Placement to the properties of *)
(* the run: a request is in one place, the place agrees with the state of  *)
(* its caller and of its worker, and a worker leaves only a drained        *)
(* scheduler.                                                              *)
(***************************************************************************)
EXTENDS ProviderCalls, FiniteSetTheorems, TLAPS

-----------------------------------------------------------------------------
(* The scheduler. *)

QueuedAwait == \A c \in queue : caller[c] = "awaiting"

RunningIsServed ==
  \A w \in Workers, c \in Callers : <<w, c>> \in running =>
    worker[w] = "serving" /\ caller[c] = "awaiting" /\ c \notin queue

OneRequestEach ==
  \A w \in Workers, c, d \in Callers :
    <<w, c>> \in running /\ <<w, d>> \in running => c = d

OneWorkerEach ==
  \A v, w \in Workers, c \in Callers :
    <<v, c>> \in running /\ <<w, c>> \in running => v = w

ServingHasRequest ==
  \A w \in Workers : worker[w] = "serving" =>
    \E c \in Callers : <<w, c>> \in running

AwaitingHasPlace ==
  \A c \in Callers : caller[c] = "awaiting" =>
    c \in queue \/ \E w \in Workers : <<w, c>> \in running

LeavesDrained ==
  \A w \in Workers : worker[w] = "exited" => IsShutdown /\ queue = {}

Placement ==
  /\ QueuedAwait
  /\ RunningIsServed
  /\ OneRequestEach
  /\ OneWorkerEach
  /\ ServingHasRequest
  /\ AwaitingHasPlace
  /\ LeavesDrained

\* The heap's order is total: sequence numbers are never reused.
Numbered ==
  \A c \in queue :
    /\ ticket[c].number < sequence
    /\ \A d \in queue \ {c} : ticket[c].number # ticket[d].number

SchedulerIInv == SchedulerTypeOK /\ WithinCapacity /\ NobodyOversleeps /\ Placement /\ Numbered

\* The two groups of threads that share the condition, once notified.
LEMMA AfterNotifyAll ==
  ASSUME SchedulerTypeOK
  PROVE  /\ Wake(caller, "woken") \in [Callers -> CallerStates]
         /\ Wake(worker, "looping") \in [Workers -> WorkerStates]
         /\ \A c \in Callers :
              /\ Wake(caller, "woken")[c] # "waiting"
              /\ \/ caller[c] = "waiting"
                 \/ Wake(caller, "woken")[c] = caller[c]
              /\ caller[c] = "waiting" =>
                   Wake(caller, "woken")[c] = "woken"
         /\ \A w \in Workers :
              /\ Wake(worker, "looping")[w] # "waiting"
              /\ \/ worker[w] = "waiting"
                 \/ Wake(worker, "looping")[w] = worker[w]
              /\ worker[w] = "waiting" => Wake(worker, "looping")[w] = "looping"
<1> USE DEF SchedulerTypeOK
<1>1. \A c \in Callers : c \in Notified <=> caller[c] = "waiting"
  BY SchedulerAssumption DEF Notified, Parked
<1>2. \A w \in Workers : w \in Notified <=> worker[w] = "waiting"
  BY SchedulerAssumption DEF Notified, Parked
<1>3. /\ DOMAIN Wake(caller, "woken") = Callers
      /\ Wake(caller, "woken") = [c \in Callers |->
           IF c \in Notified THEN "woken" ELSE caller[c]]
  BY DEF Wake
<1>4. /\ DOMAIN Wake(worker, "looping") = Workers
      /\ Wake(worker, "looping") = [w \in Workers |->
           IF w \in Notified THEN "looping" ELSE worker[w]]
  BY DEF Wake
<1>5. ASSUME NEW c \in Callers
      PROVE  Wake(caller, "woken")[c] =
               IF caller[c] = "waiting" THEN "woken" ELSE caller[c]
  BY <1>1, <1>3
<1>6. ASSUME NEW w \in Workers
      PROVE  Wake(worker, "looping")[w] =
               IF worker[w] = "waiting" THEN "looping" ELSE worker[w]
  BY <1>2, <1>4
<1>7. Wake(caller, "woken") \in [Callers -> CallerStates]
  BY <1>3 DEF CallerStates
<1>8. Wake(worker, "looping") \in [Workers -> WorkerStates]
  BY <1>4 DEF WorkerStates
<1> QED BY <1>5, <1>6, <1>7, <1>8

\* The heap is finite; a push adds one to its size, a pop never adds.
LEMMA QueueSize ==
  ASSUME SchedulerTypeOK
  PROVE  /\ Cardinality(queue) \in Nat
         /\ \A c \in Callers : Cardinality(queue \cup {c}) <= Cardinality(queue) + 1
         /\ \A c \in Callers : Cardinality(queue \ {c}) \in Nat
         /\ \A c \in Callers : Cardinality(queue \cup {c}) \in Nat
         /\ \A c \in Callers : Cardinality(queue \ {c}) <= Cardinality(queue)
<1>1. IsFiniteSet(queue)
  BY SchedulerAssumption, FS_Subset DEF SchedulerTypeOK
<1>2. Cardinality(queue) \in Nat
  BY <1>1, FS_CardinalityType
<1>3. ASSUME NEW c \in Callers
      PROVE  /\ Cardinality(queue \cup {c}) \in Nat
             /\ Cardinality(queue \cup {c}) <= Cardinality(queue) + 1
  <2>1. Cardinality(queue \cup {c}) =
          IF c \in queue THEN Cardinality(queue) ELSE Cardinality(queue) + 1
    BY <1>1, FS_AddElement
  <2> QED BY <2>1, <1>2
<1>4. ASSUME NEW c \in Callers
      PROVE  /\ Cardinality(queue \ {c}) \in Nat
             /\ Cardinality(queue \ {c}) <= Cardinality(queue)
  BY <1>1, <1>2, FS_Subset, FS_CardinalityType, queue \ {c} \subseteq queue
<1> QED BY <1>2, <1>3, <1>4

LEMMA InitEstablishes == SchedulerInit => SchedulerIInv
<1> SUFFICES ASSUME SchedulerInit PROVE SchedulerIInv
  OBVIOUS
<1>1. SchedulerTypeOK
  BY DEF SchedulerInit, SchedulerTypeOK, NoTicket, CallerStates, WorkerStates
<1>2. WithinCapacity
  BY FS_EmptySet, SchedulerAssumption DEF SchedulerInit, WithinCapacity
<1>3. NobodyOversleeps
  BY DEF SchedulerInit, NobodyOversleeps
<1>4. Placement
  BY DEF SchedulerInit, Placement, QueuedAwait, RunningIsServed, OneRequestEach,
         OneWorkerEach, ServingHasRequest, AwaitingHasPlace, LeavesDrained
<1>5. Numbered
  BY DEF SchedulerInit, Numbered
<1> QED BY <1>1, <1>2, <1>3, <1>4, <1>5 DEF SchedulerIInv

LEMMA PriorityRange == \A stage \in Stages : Priority(stage) \in 0..2
BY DEF Stages, Priority, ROPD_STAGE_PRIORITY

-----------------------------------------------------------------------------
(* One lemma per conjunct of the invariant that needs its own argument *)

LEMMA StepKeepsTypes == SchedulerTypeOK /\ [SchedulerNext]_schedulerVars => SchedulerTypeOK'
<1> SUFFICES ASSUME SchedulerTypeOK, [SchedulerNext]_schedulerVars
             PROVE  SchedulerTypeOK'
  OBVIOUS
<1> USE DEF SchedulerTypeOK
<1> DEFINE AwakeC == Wake(caller, "woken")
           AwakeW == Wake(worker, "looping")
<1>1. AwakeC \in [Callers -> CallerStates] /\ AwakeW \in [Workers -> WorkerStates]
  BY AfterNotifyAll
<1>2. ASSUME NEW c \in Callers, NEW stage \in Stages, Submit(c, stage)
      PROVE  SchedulerTypeOK'
  <2>1. ticket' = [ticket EXCEPT ![c] = [priority |-> Priority(stage), number |-> 0]]
    BY <1>2 DEF Submit
  <2>2. Priority(stage) \in 0..2
    BY PriorityRange
  <2>3. ticket' \in [Callers -> [priority : 0..2, number : Nat]]
    BY <2>1, <2>2
  <2> QED BY <1>2, <2>3 DEF Submit, CallerStates
<1>3. ASSUME NEW c \in Callers, ScheduleWaits(c) PROVE SchedulerTypeOK'
  BY <1>3 DEF ScheduleWaits, CallerStates
<1>4. ASSUME NEW c \in Callers, ScheduleRefused(c) PROVE SchedulerTypeOK'
  BY <1>4 DEF ScheduleRefused, CallerStates
<1>5. ASSUME NEW c \in Callers, SchedulePushes(c) PROVE SchedulerTypeOK'
  <2>1. caller' \in [Callers -> CallerStates]
    BY <1>5, <1>1 DEF SchedulePushes, CallerStates
  <2>2. ticket' \in [Callers -> [priority : 0..2, number : Nat]]
    BY <1>5 DEF SchedulePushes
  <2> QED BY <1>5, <1>1, <2>1, <2>2 DEF SchedulePushes
<1>6. ASSUME NEW c \in Callers, Return(c) PROVE SchedulerTypeOK'
  BY <1>6 DEF Return, CallerStates
<1>7. ASSUME NEW w \in Workers, WorkerWaits(w) PROVE SchedulerTypeOK'
  BY <1>7 DEF WorkerWaits, WorkerStates
<1>8. ASSUME NEW w \in Workers, WorkerExits(w) PROVE SchedulerTypeOK'
  BY <1>8 DEF WorkerExits, WorkerStates
<1>9. ASSUME NEW w \in Workers, WorkerTakes(w) PROVE SchedulerTypeOK'
  <2>1. worker' \in [Workers -> WorkerStates]
    BY <1>9, <1>1 DEF WorkerTakes, WorkerStates
  <2>2. ticket' \in [Callers -> [priority : 0..2, number : Nat]]
    BY <1>9 DEF WorkerTakes, NoTicket
  <2> QED BY <1>9, <1>1, <2>1, <2>2 DEF WorkerTakes
<1>10. ASSUME NEW w \in Workers, WorkerAnswers(w) PROVE SchedulerTypeOK'
  BY <1>10 DEF WorkerAnswers, WorkerStates, CallerStates
<1>11. CASE Shutdown
  BY <1>11, <1>1 DEF Shutdown
<1>12. CASE Joined
  BY <1>12 DEF Joined
<1>13. CASE UNCHANGED schedulerVars
  BY <1>13 DEF schedulerVars
<1> QED
  BY <1>2, <1>3, <1>4, <1>5, <1>6, <1>7, <1>8, <1>9, <1>10, <1>11, <1>12, <1>13
  DEF SchedulerNext, CallerStep, WorkerStep

\* Only a push adds to the heap, and it checks for room under the lock.
LEMMA StepKeepsCapacity ==
  SchedulerTypeOK /\ WithinCapacity /\ [SchedulerNext]_schedulerVars => WithinCapacity'
<1> SUFFICES ASSUME SchedulerTypeOK, WithinCapacity, [SchedulerNext]_schedulerVars
             PROVE  WithinCapacity'
  OBVIOUS
<1>1. MaxQueueSize \in Nat
  BY SchedulerAssumption
<1>2. ASSUME NEW c \in Callers, SchedulePushes(c) PROVE WithinCapacity'
  BY <1>1, <1>2, QueueSize DEF SchedulePushes, MayPush, Full, WithinCapacity
<1>3. ASSUME NEW w \in Workers, WorkerTakes(w) PROVE WithinCapacity'
  <2>1. PICK c \in queue : queue' = queue \ {c}
    BY <1>3 DEF WorkerTakes
  <2>2. c \in Callers
    BY DEF SchedulerTypeOK
  <2> QED BY <1>1, <2>1, <2>2, QueueSize DEF WithinCapacity
<1>4. CASE queue' = queue
  BY <1>4 DEF WithinCapacity
<1> QED
  BY <1>2, <1>3, <1>4
  DEF SchedulerNext, CallerStep, WorkerStep, Submit, ScheduleWaits, ScheduleRefused,
      Return, WorkerWaits, WorkerExits, WorkerAnswers, Shutdown, Joined, schedulerVars

\* Whatever could end a wait also ends with notify_all().
LEMMA StepKeepsSleepers ==
  SchedulerTypeOK /\ NobodyOversleeps /\ [SchedulerNext]_schedulerVars => NobodyOversleeps'
<1> SUFFICES ASSUME SchedulerTypeOK, NobodyOversleeps, [SchedulerNext]_schedulerVars
             PROVE  NobodyOversleeps'
  OBVIOUS
<1> USE DEF SchedulerTypeOK, NobodyOversleeps
<1>1. /\ \A c \in Callers : Wake(caller, "woken")[c] # "waiting"
      /\ \A w \in Workers : Wake(worker, "looping")[w] # "waiting"
      /\ Wake(caller, "woken") \in [Callers -> CallerStates]
      /\ Wake(worker, "looping") \in [Workers -> WorkerStates]
  BY AfterNotifyAll
<1>2. ASSUME \A c \in Callers : caller'[c] # "waiting",
             \A w \in Workers : worker'[w] # "waiting"
      PROVE  NobodyOversleeps'
  BY <1>2
<1>3. ASSUME NEW c \in Callers, SchedulePushes(c) PROVE NobodyOversleeps'
  BY <1>1, <1>2, <1>3 DEF SchedulePushes
<1>4. ASSUME NEW w \in Workers, WorkerTakes(w) PROVE NobodyOversleeps'
  BY <1>1, <1>2, <1>4 DEF WorkerTakes
<1>5. CASE Shutdown
  BY <1>1, <1>2, <1>5 DEF Shutdown
<1>6. ASSUME NEW c \in Callers,
             \/ \E stage \in Stages : Submit(c, stage)
             \/ ScheduleWaits(c) \/ ScheduleRefused(c) \/ Return(c)
      PROVE  NobodyOversleeps'
  BY <1>6 DEF Submit, ScheduleWaits, ScheduleRefused, Return, Full, IsShutdown
<1>7. ASSUME NEW w \in Workers,
             WorkerWaits(w) \/ WorkerExits(w) \/ WorkerAnswers(w)
      PROVE  NobodyOversleeps'
  <2>1. CASE WorkerWaits(w)
    BY <2>1 DEF WorkerWaits, Full, IsShutdown
  <2>2. CASE WorkerExits(w)
    BY <2>2 DEF WorkerExits, Full, IsShutdown
  <2>3. CASE WorkerAnswers(w)
    BY <2>3 DEF WorkerAnswers, Full, IsShutdown
  <2> QED
    BY <1>7, <2>1, <2>2, <2>3
<1>8. CASE Joined
  BY <1>8 DEF Joined, Full, IsShutdown
<1>9. CASE UNCHANGED schedulerVars
  BY <1>9 DEF schedulerVars, Full, IsShutdown
<1> QED
  BY <1>3, <1>4, <1>5, <1>6, <1>7, <1>8, <1>9 DEF SchedulerNext, CallerStep, WorkerStep

\* A push, a pop and an answer each move one request between the heap, a
\* worker and its caller; no other step touches a request.
LEMMA StepKeepsPlacement ==
  SchedulerTypeOK /\ Placement /\ [SchedulerNext]_schedulerVars => Placement'
<1> SUFFICES ASSUME SchedulerTypeOK, Placement, [SchedulerNext]_schedulerVars
             PROVE  Placement'
  OBVIOUS
<1> USE DEF SchedulerTypeOK, Placement, QueuedAwait, RunningIsServed, OneRequestEach,
            OneWorkerEach, ServingHasRequest, AwaitingHasPlace, LeavesDrained
<1>1. ASSUME NEW c \in Callers,
             \/ \E stage \in Stages : Submit(c, stage)
             \/ ScheduleWaits(c) \/ ScheduleRefused(c) \/ Return(c)
      PROVE  Placement'
  <2>1. UNCHANGED <<worker, queue, running, owner>>
    BY <1>1 DEF Submit, ScheduleWaits, ScheduleRefused, Return
  <2>2. \A d \in Callers : caller[d] = "awaiting" <=> caller'[d] = "awaiting"
    BY <1>1 DEF Submit, ScheduleWaits, ScheduleRefused, Return, Scheduling
  <2> QED BY <2>1, <2>2 DEF IsShutdown
<1>2. ASSUME NEW c \in Callers, SchedulePushes(c) PROVE Placement'
  <2>1. /\ caller' = [Wake(caller, "woken") EXCEPT ![c] = "awaiting"]
        /\ worker' = Wake(worker, "looping")
        /\ queue' = queue \cup {c}
        /\ running' = running
        /\ ~IsShutdown
        /\ Scheduling(c)
    BY <1>2 DEF SchedulePushes
  <2>2. \A d \in Callers : caller[d] = "awaiting" => caller'[d] = "awaiting"
    BY <2>1, AfterNotifyAll
  <2>3. \A d \in Callers : caller'[d] = "awaiting" => d = c \/ caller[d] = "awaiting"
    BY <2>1, AfterNotifyAll
  <2>4. \A w \in Workers : worker[w] = "serving" <=> worker'[w] = "serving"
    BY <2>1, AfterNotifyAll
  <2>5. \A w \in Workers : worker'[w] # "exited"
    BY <2>1, AfterNotifyAll
  <2>6. caller'[c] = "awaiting"
    BY <2>1, AfterNotifyAll
  <2>7. \A w \in Workers : <<w, c>> \notin running
    BY <2>1 DEF Scheduling
  <2>8. QueuedAwait' /\ AwaitingHasPlace'
    BY <2>1, <2>2, <2>3, <2>6
  <2>9. RunningIsServed' /\ ServingHasRequest'
    BY <2>1, <2>2, <2>4, <2>7
  <2>10. OneRequestEach' /\ OneWorkerEach'
    BY <2>1
  <2>11. LeavesDrained'
    BY <2>5
  <2> QED BY <2>8, <2>9, <2>10, <2>11
<1>3. ASSUME NEW w \in Workers, WorkerWaits(w) \/ WorkerExits(w) PROVE Placement'
  <2>1. UNCHANGED <<caller, queue, running, owner>>
    BY <1>3 DEF WorkerWaits, WorkerExits
  <2>2. \A v \in Workers : worker[v] = "serving" <=> worker'[v] = "serving"
    BY <1>3 DEF WorkerWaits, WorkerExits
  <2>3. LeavesDrained'
    BY <1>3 DEF WorkerWaits, WorkerExits, MayExit, IsShutdown
  <2> QED BY <2>1, <2>2, <2>3
<1>4. ASSUME NEW w \in Workers, WorkerTakes(w) PROVE Placement'
  <2>1. PICK c \in queue : /\ queue' = queue \ {c}
                           /\ running' = running \cup {<<w, c>>}
    BY <1>4 DEF WorkerTakes
  <2>2. /\ worker' = [Wake(worker, "looping") EXCEPT ![w] = "serving"]
        /\ caller' = Wake(caller, "woken")
        /\ worker[w] = "looping"
        /\ owner' = owner
        /\ c \in Callers
    BY <1>4, <2>1 DEF WorkerTakes
  <2>3. \A d \in Callers : caller[d] = "awaiting" <=> caller'[d] = "awaiting"
    BY <2>2, AfterNotifyAll
  <2>4. \A v \in Workers : worker'[v] = "serving" <=> v = w \/ worker[v] = "serving"
    BY <2>2, AfterNotifyAll
  <2>5. \A v \in Workers : worker'[v] # "exited"
    BY <2>1, <2>2, AfterNotifyAll
  <2>6. \A d \in Callers : <<w, d>> \notin running
    BY <2>2
  <2>7. \A v \in Workers : <<v, c>> \notin running
    BY <2>1, <2>2
  <2>8. QueuedAwait' /\ AwaitingHasPlace'
    BY <2>1, <2>2, <2>3
  <2>9. RunningIsServed' /\ ServingHasRequest'
    <3>1. ASSUME NEW v \in Workers, NEW d \in Callers, <<v, d>> \in running'
          PROVE  worker'[v] = "serving" /\ caller'[d] = "awaiting" /\ d \notin queue'
      <4>1. <<v, d>> \in running \/ (v = w /\ d = c)
        BY <2>1, <3>1
      <4> QED BY <2>1, <2>3, <2>4, <4>1
    <3>2. ServingHasRequest'
      BY <2>1, <2>2, <2>4
    <3> QED BY <3>1, <3>2
  <2>10. OneRequestEach' /\ OneWorkerEach'
    BY <2>1, <2>6, <2>7
  <2>11. LeavesDrained'
    BY <2>5
  <2> QED BY <2>8, <2>9, <2>10, <2>11
<1>5. ASSUME NEW w \in Workers, WorkerAnswers(w) PROVE Placement'
  <2>1. PICK c \in Callers : /\ <<w, c>> \in running
                             /\ running' = running \ {<<w, c>>}
                             /\ caller' = [caller EXCEPT ![c] = "answered"]
    BY <1>5 DEF WorkerAnswers
  <2>2. /\ worker' = [worker EXCEPT ![w] = "looping"]
        /\ queue' = queue
        /\ owner' = owner
    BY <1>5 DEF WorkerAnswers
  <2>3. \A d \in Callers : caller'[d] = "awaiting" <=> d # c /\ caller[d] = "awaiting"
    BY <2>1
  <2>4. \A v \in Workers : worker'[v] = "serving" <=> v # w /\ worker[v] = "serving"
    BY <2>2
  <2>5. \A v \in Workers, d \in Callers :
          <<v, d>> \in running' <=> <<v, d>> \in running /\ ~(v = w /\ d = c)
    BY <2>1
  <2>6. c \notin queue
    BY <2>1
  <2>7. \A v \in Workers : worker'[v] = "exited" => IsShutdown' /\ queue' = {}
    BY <2>2 DEF IsShutdown
  <2> QED BY <2>1, <2>2, <2>3, <2>4, <2>5, <2>6, <2>7
<1>6. CASE Shutdown
  <2>1. \A c \in Callers : caller[c] = "awaiting" <=> caller'[c] = "awaiting"
    BY <1>6, AfterNotifyAll DEF Shutdown
  <2>2. \A w \in Workers : worker[w] = "serving" <=> worker'[w] = "serving"
    BY <1>6, AfterNotifyAll DEF Shutdown
  <2>3. \A w \in Workers : worker'[w] # "exited"
    BY <1>6, AfterNotifyAll DEF Shutdown, IsShutdown
  <2> QED BY <1>6, <2>1, <2>2, <2>3 DEF Shutdown
<1>7. CASE Joined \/ UNCHANGED schedulerVars
  BY <1>7 DEF Joined, schedulerVars, IsShutdown
<1> QED
  BY <1>1, <1>2, <1>3, <1>4, <1>5, <1>6, <1>7 DEF SchedulerNext, CallerStep, WorkerStep

\* A push takes a fresh number; only it numbers a request of the heap.
LEMMA StepKeepsNumbers ==
  SchedulerTypeOK /\ Placement /\ Numbered /\ [SchedulerNext]_schedulerVars => Numbered'
<1> SUFFICES ASSUME SchedulerTypeOK, Placement, Numbered, [SchedulerNext]_schedulerVars
             PROVE  Numbered'
  OBVIOUS
<1> USE DEF SchedulerTypeOK, Numbered
<1>1. ASSUME NEW c \in Callers, NEW stage \in Stages, Submit(c, stage)
      PROVE  Numbered'
  <2>1. c \notin queue
    BY <1>1 DEF Submit, Placement, QueuedAwait
  <2>2. \A d \in queue : ticket'[d] = ticket[d]
    BY <1>1, <2>1 DEF Submit
  <2> QED BY <1>1, <2>2 DEF Submit
<1>2. ASSUME NEW c \in Callers, SchedulePushes(c) PROVE Numbered'
  <2>1. \A d \in queue \ {c} : ticket'[d] = ticket[d]
    BY <1>2 DEF SchedulePushes
  <2>2. ticket'[c].number = sequence
    BY <1>2 DEF SchedulePushes
  <2>3. queue' = queue \cup {c} /\ sequence' = sequence + 1
    BY <1>2 DEF SchedulePushes
  <2>4. \A d \in queue : ticket[d].number \in Nat
    OBVIOUS
  <2> QED BY <2>1, <2>2, <2>3, <2>4
<1>3. ASSUME NEW w \in Workers, WorkerTakes(w) PROVE Numbered'
  <2>1. PICK c \in queue : /\ queue' = queue \ {c}
                           /\ ticket' = [ticket EXCEPT ![c] = NoTicket]
    BY <1>3 DEF WorkerTakes
  <2>2. \A d \in queue' : d \in queue /\ ticket'[d] = ticket[d]
    BY <2>1
  <2> QED BY <1>3, <2>2 DEF WorkerTakes
<1>4. CASE UNCHANGED <<queue, ticket, sequence>>
  BY <1>4
<1> QED
  BY <1>1, <1>2, <1>3, <1>4
  DEF SchedulerNext, CallerStep, WorkerStep, ScheduleWaits, ScheduleRefused, Return,
      WorkerWaits, WorkerExits, WorkerAnswers, Shutdown, Joined, schedulerVars

\* The five conjuncts together are inductive.
THEOREM SchedulerInvariant == SchedulerSpec => []SchedulerIInv
<1>1. SchedulerIInv /\ [SchedulerNext]_schedulerVars => SchedulerIInv'
  BY StepKeepsTypes, StepKeepsCapacity, StepKeepsSleepers, StepKeepsPlacement,
     StepKeepsNumbers
  DEF SchedulerIInv
<1> QED BY <1>1, InitEstablishes, PTL DEF SchedulerSpec

-----------------------------------------------------------------------------
\* The heap of ropd_scheduler.py never outgrows max_queue_size.
THEOREM SchedulerWithinCapacity == SchedulerSpec => []WithinCapacity
<1>1. SchedulerIInv => WithinCapacity
  BY DEF SchedulerIInv
<1> QED BY <1>1, SchedulerInvariant, PTL

\* notify_all() on the one shared condition loses no wakeup.
THEOREM SchedulerLosesNoWakeup == SchedulerSpec => []NobodyOversleeps
<1>1. SchedulerIInv => NobodyOversleeps
  BY DEF SchedulerIInv
<1> QED BY <1>1, SchedulerInvariant, PTL

\* An accepted request is in the heap or with one worker until it is
\* answered, shutdown or not.
THEOREM SchedulerAbandonsNothing == SchedulerSpec => []AcceptedIsHeld
<1>1. ASSUME SchedulerIInv PROVE AcceptedIsHeld
  <2> USE <1>1 DEF SchedulerIInv, SchedulerTypeOK, Placement, RunningIsServed, OneWorkerEach,
                   AwaitingHasPlace, LeavesDrained
  <2>1. ASSUME NEW c \in Callers, caller[c] = "awaiting", c \in queue
        PROVE  /\ \A w \in Workers : <<w, c>> \notin running
               /\ \E w \in Workers : worker[w] # "exited"
    BY <2>1, SchedulerAssumption
  <2>2. ASSUME NEW c \in Callers, caller[c] = "awaiting", c \notin queue
        PROVE  \E w \in Workers :
                 /\ worker[w] = "serving"
                 /\ \A v \in Workers : <<v, c>> \in running <=> v = w
    <3>1. PICK w \in Workers : <<w, c>> \in running
      BY <2>2
    <3>2. worker[w] = "serving" /\ \A v \in Workers : <<v, c>> \in running <=> v = w
      BY <3>1
    <3> QED BY <3>2
  <2> QED BY <2>1, <2>2 DEF AcceptedIsHeld
<1> QED BY <1>1, SchedulerInvariant, PTL

\* A worker starts the most urgent, then the oldest request of the heap.
THEOREM SchedulerUrgentFirst == SchedulerSpec => UrgentFirst
<1>1. SchedulerIInv /\ [SchedulerNext]_schedulerVars => [LeavesNoneMoreUrgent]_schedulerVars
  <2> SUFFICES ASSUME SchedulerIInv, [SchedulerNext]_schedulerVars,
                      NEW c \in queue, c \notin queue', NEW d \in queue'
               PROVE  \/ ticket[c].priority < ticket[d].priority
                      \/ /\ ticket[c].priority = ticket[d].priority
                         /\ ticket[c].number < ticket[d].number
    BY DEF LeavesNoneMoreUrgent
  <2>1. PICK w \in Workers : WorkerTakes(w)
    BY DEF SchedulerNext, CallerStep, WorkerStep, Submit, ScheduleWaits,
                ScheduleRefused, SchedulePushes, Return, WorkerWaits,
                WorkerExits, WorkerAnswers, Shutdown, Joined, schedulerVars
  <2>2. ~Before(d, c) /\ d \in queue /\ d # c
    BY <2>1 DEF WorkerTakes
  <2>3. /\ ticket[c].priority \in 0..2 /\ ticket[d].priority \in 0..2
        /\ ticket[c].number \in Nat /\ ticket[d].number \in Nat
    BY <2>2 DEF SchedulerIInv, SchedulerTypeOK
  <2>4. ticket[c].number # ticket[d].number
    BY <2>2 DEF SchedulerIInv, Numbered
  <2> QED BY <2>2, <2>3, <2>4 DEF Before
<1> QED BY <1>1, SchedulerInvariant, PTL DEF SchedulerSpec, UrgentFirst

-----------------------------------------------------------------------------
(* The sharing of requests in flight. *)

SharingTypes ==
  /\ phase \in [Callers -> Leading \cup {"out", "completing", "following", "told"}]
  /\ fingerprint \in [Callers -> Fingerprints]
  /\ inflight \in SUBSET Callers
  /\ follows \in [Callers -> Callers]

\* The entries are exactly the calls that lead,
LeadersAreEntries == \A c \in Callers : c \in inflight <=> phase[c] \in Leading

\* and no two entries have the same key.
KeysAreUnique ==
  \A c, d \in inflight : fingerprint[c] = fingerprint[d] => c = d

SharingInv == SharingTypes /\ LeadersAreEntries /\ KeysAreUnique /\ FollowersAreHeld

LEMMA NoCallIsOne == NoCall \in Fingerprints
  BY ProviderAssumption DEF NoCall

LEMMA AskedIsOne == \A c \in Callers : \A f \in Asks[c] : f \in Fingerprints
  BY ProviderAssumption

LEMMA InitSharing == Init => SharingInv
  BY NoCallIsOne DEF Init, SharingInv, SharingTypes, LeadersAreEntries, KeysAreUnique, FollowersAreHeld,
         Leading

\* A step that moves one caller between two places of Leading, or moves nobody.
LEMMA LeaderGoesOn ==
  ASSUME SharingInv, UNCHANGED <<fingerprint, inflight, follows>>,
         NEW c \in Callers, phase[c] \in Leading,
         NEW p \in Leading, phase' = [phase EXCEPT ![c] = p]
  PROVE  SharingInv'
  BY DEF SharingInv, SharingTypes, LeadersAreEntries, KeysAreUnique, FollowersAreHeld, Leading

LEMMA LeadStep ==
  ASSUME SharingInv, NEW c \in Callers, NEW f \in Fingerprints, Lead(c, f)
  PROVE  SharingInv'
  <1> USE DEF Lead, SharingInv
  <1>1. SharingTypes' /\ LeadersAreEntries'
    BY DEF SharingTypes, LeadersAreEntries, Leading
  <1>2. \A d \in inflight : fingerprint[d] # f /\ d # c
    BY DEF Existing, Sharing, LeadersAreEntries, Leading
  <1>3. KeysAreUnique'
    BY <1>2 DEF SharingTypes, KeysAreUnique
  <1>4. FollowersAreHeld'
    BY DEF SharingTypes, FollowersAreHeld, Leading
  <1> QED  BY <1>1, <1>3, <1>4

\* The leader found is an entry, so it leads.
LEMMA FollowStep ==
  ASSUME SharingInv, NEW c \in Callers, NEW f \in Fingerprints, Follow(c, f)
  PROVE  SharingInv'
  BY DEF Follow, Existing, Sharing, SharingInv, SharingTypes, LeadersAreEntries, KeysAreUnique,
         FollowersAreHeld, Leading

LEMMA RemoveStep ==
  ASSUME SharingInv, NEW c \in Callers, RemoveEntry(c)
  PROVE  SharingInv'
  BY DEF RemoveEntry, SharingInv, SharingTypes, LeadersAreEntries, KeysAreUnique,
         FollowersAreHeld, Leading

\* Whoever followed the call that completes is told in the same step.
LEMMA CompleteStep ==
  ASSUME SharingInv, NEW c \in Callers, CompleteFuture(c)
  PROVE  SharingInv'
  <1> USE DEF CompleteFuture, SharingInv
  <1>1. SharingTypes' /\ LeadersAreEntries'
    BY NoCallIsOne DEF SharingTypes, LeadersAreEntries, Leading
  <1>2. c \notin inflight
    BY DEF LeadersAreEntries, Leading
  <1>3. KeysAreUnique'
    BY <1>2 DEF SharingTypes, KeysAreUnique
  <1>4. FollowersAreHeld'
    BY DEF SharingTypes, FollowersAreHeld, Leading
  <1> QED  BY <1>1, <1>3, <1>4

LEMMA ReturnStep ==
  ASSUME SharingInv, NEW c \in Callers, FollowerReturns(c)
  PROVE  SharingInv'
  BY DEF FollowerReturns, SharingInv, SharingTypes, LeadersAreEntries, KeysAreUnique,
         FollowersAreHeld, Leading

LEMMA OtherSteps ==
  ASSUME SharingInv, UNCHANGED sharing
  PROVE  SharingInv'
  BY DEF sharing, SharingInv, SharingTypes, LeadersAreEntries, KeysAreUnique, FollowersAreHeld,
         Leading

-----------------------------------------------------------------------------
(* The scheduler within: its steps are its own, whoever calls it.          *)

\* A call drives the scheduler by submit(), or leaves it alone.
LEMMA CallDrives ==
  ASSUME NEW c \in Callers, CallStep(c)
  PROVE  \/ Submit(c, StageOf[fingerprint[c]])
         \/ CallerStep(c)
         \/ UNCHANGED schedulerVars
  BY DEF CallStep, LeaderSubmits, LeaderAnswered, LeaderRefused, RemoveEntry,
         CompleteFuture, FollowerReturns, CallerStep

\* Every call has a fingerprint, and so a stage.
HasFingerprint == fingerprint \in [Callers -> Fingerprints]

LEMMA CallsHaveFingerprints == Spec => []HasFingerprint
  <1>1. Init => HasFingerprint
    BY NoCallIsOne DEF Init, HasFingerprint
  <1>2. HasFingerprint /\ [Next]_vars => HasFingerprint'
    <2> SUFFICES ASSUME HasFingerprint, [Next]_vars PROVE HasFingerprint'
      OBVIOUS
    <2>1. ASSUME NEW c \in Callers, NEW f \in Asks[c], Lead(c, f)
          PROVE  HasFingerprint'
      BY <2>1, AskedIsOne DEF Lead, HasFingerprint
    <2>2. ASSUME NEW c \in Callers, CompleteFuture(c) PROVE HasFingerprint'
      BY <2>2, NoCallIsOne DEF CompleteFuture, HasFingerprint
    <2>3. CASE UNCHANGED fingerprint
      BY <2>3 DEF HasFingerprint
    <2> QED
      BY <2>1, <2>2, <2>3
      DEF Next, CallStep, Follow, LeaderSubmits, LeaderAnswered, LeaderRefused,
          RemoveEntry, FollowerReturns, sharing, vars
  <1> QED  BY <1>1, <1>2, PTL DEF Spec

LEMMA CallsDriveScheduler ==
  HasFingerprint /\ [Next]_vars => [SchedulerNext]_schedulerVars
  <1> SUFFICES ASSUME HasFingerprint, [Next]_vars
               PROVE  [SchedulerNext]_schedulerVars
    OBVIOUS
  <1>1. CASE \E c \in Callers : \E f \in Asks[c] : Lead(c, f) \/ Follow(c, f)
    BY <1>1 DEF Lead, Follow
  <1>2. ASSUME NEW c \in Callers, CallStep(c)
        PROVE  [SchedulerNext]_schedulerVars
    <2>1. StageOf[fingerprint[c]] \in Stages
      BY ProviderAssumption DEF HasFingerprint
    <2> QED  BY <1>2, <2>1, CallDrives DEF SchedulerNext
  <1>3. CASE \/ \E w \in Workers : WorkerStep(w) /\ UNCHANGED sharing
             \/ Shutdown /\ UNCHANGED sharing
             \/ Joined /\ UNCHANGED sharing
    BY <1>3 DEF SchedulerNext
  <1>4. CASE UNCHANGED vars
    BY <1>4 DEF vars
  <1> QED  BY <1>1, <1>2, <1>3, <1>4 DEF Next

\* Seen from its own variables, the scheduler under the calls is the one of
\* RequestScheduler: what holds for any callers holds for create_text.
THEOREM CallsUseScheduler == Spec => SchedulerSpec
  <1>1. Init => SchedulerInit
    BY DEF Init
  <1> QED
    BY <1>1, CallsHaveFingerprints, CallsDriveScheduler, PTL
    DEF Spec, SchedulerSpec

\* Under create_text, through shutdown too, the heap keeps its capacity, no
\* thread oversleeps, no accepted request is lost and the urgent go first.
THEOREM CallsKeepScheduler ==
  Spec => [](WithinCapacity /\ NobodyOversleeps /\ AcceptedIsHeld) /\ UrgentFirst
  BY CallsUseScheduler, SchedulerWithinCapacity, SchedulerLosesNoWakeup,
     SchedulerAbandonsNothing, SchedulerUrgentFirst, PTL

-----------------------------------------------------------------------------
(* The scheduler's answer and its refusal reach a call that waits for one: *)
(* a caller is in submit() exactly while its call is submitted.  That a    *)
(* request the scheduler holds is awaited is the scheduler's Placement.    *)

SubmittedAreCalling ==
  \A c \in Callers : caller[c] # "idle" <=> phase[c] = "submitted"

LEMMA InitCalling == Init => SubmittedAreCalling
  BY DEF Init, SchedulerInit, SubmittedAreCalling

\* notify_all() neither begins nor ends a submit().
LEMMA WakeCallers ==
  ASSUME SchedulerIInv, NEW c \in Callers
  PROVE  Wake(caller, "woken")[c] = "idle" <=> caller[c] = "idle"
  BY AfterNotifyAll DEF SchedulerIInv, SchedulerTypeOK

\* What moves a call leaves submit() alone, or begins it, or ends it.
LEMMA CallKeepsCalling ==
  ASSUME SchedulerIInv, SharingTypes, SubmittedAreCalling, NEW c \in Callers,
         \/ LeaderSubmits(c) \/ LeaderAnswered(c) \/ LeaderRefused(c)
         \/ RemoveEntry(c) \/ CompleteFuture(c) \/ FollowerReturns(c)
         \/ \E f \in Asks[c] : Lead(c, f) \/ Follow(c, f)
  PROVE  SubmittedAreCalling'
  <1> USE DEF SchedulerIInv, SchedulerTypeOK, SharingTypes, SubmittedAreCalling
  <1>1. CASE LeaderSubmits(c)
    BY <1>1 DEF LeaderSubmits, Submit
  <1>2. CASE LeaderAnswered(c) \/ LeaderRefused(c)
    BY <1>2 DEF LeaderAnswered, LeaderRefused, AfterRefusal, Return, ScheduleRefused
  <1>3. CASE \/ RemoveEntry(c) \/ FollowerReturns(c)
             \/ \E f \in Asks[c] : Lead(c, f) \/ Follow(c, f)
    BY <1>3 DEF RemoveEntry, FollowerReturns, Lead, Follow, schedulerVars
  <1>4. CASE CompleteFuture(c)
    BY <1>4 DEF CompleteFuture, schedulerVars
  <1> QED  BY <1>1, <1>2, <1>3, <1>4

\* Threads that wait, push or serve stay within submit(), or out of it.
LEMMA SchedulerKeepsCalling ==
  ASSUME SchedulerIInv, SubmittedAreCalling, UNCHANGED sharing,
         \/ \E c \in Callers : ScheduleWaits(c) \/ SchedulePushes(c)
         \/ \E w \in Workers : WorkerStep(w)
         \/ Shutdown \/ Joined
  PROVE  SubmittedAreCalling'
  <1> USE DEF SchedulerIInv, SchedulerTypeOK, SubmittedAreCalling, sharing
  <1>1. ASSUME NEW c \in Callers, ScheduleWaits(c) \/ SchedulePushes(c)
        PROVE  SubmittedAreCalling'
    BY <1>1, WakeCallers, AfterNotifyAll DEF ScheduleWaits, SchedulePushes, Scheduling
  <1>2. ASSUME NEW w \in Workers, WorkerWaits(w) \/ WorkerExits(w) \/ WorkerTakes(w)
        PROVE  SubmittedAreCalling'
    BY <1>2, WakeCallers DEF WorkerWaits, WorkerExits, WorkerTakes
  <1>3. ASSUME NEW w \in Workers, WorkerAnswers(w) PROVE SubmittedAreCalling'
    BY <1>3 DEF WorkerAnswers, Placement, RunningIsServed
  <1>4. CASE Shutdown \/ Joined
    BY <1>4, WakeCallers DEF Shutdown, Joined
  <1> QED  BY <1>1, <1>2, <1>3, <1>4 DEF WorkerStep

LEMMA StepKeepsCalling ==
  SchedulerIInv /\ SharingTypes /\ SubmittedAreCalling /\ [Next]_vars
    => SubmittedAreCalling'
  <1>1. SubmittedAreCalling /\ UNCHANGED vars => SubmittedAreCalling'
    BY DEF vars, schedulerVars, sharing, SubmittedAreCalling
  <1> QED
    BY <1>1, CallKeepsCalling, SchedulerKeepsCalling DEF Next, CallStep

-----------------------------------------------------------------------------
LEMMA CallSharing ==
  ASSUME SharingInv, SubmittedAreCalling, NEW c \in Callers, CallStep(c)
  PROVE  SharingInv'
  <1>1. CASE LeaderSubmits(c)
    BY <1>1, LeaderGoesOn DEF LeaderSubmits, Leading
  <1>2. CASE LeaderAnswered(c) \/ LeaderRefused(c)
    <2>1. phase[c] = "submitted"
      BY <1>2 DEF SubmittedAreCalling, LeaderAnswered, LeaderRefused, Return,
                  ScheduleRefused, Scheduling
    <2> QED
      BY <1>2, <2>1, LeaderGoesOn DEF LeaderAnswered, LeaderRefused, AfterRefusal, Leading
  <1> QED
    BY <1>1, <1>2, RemoveStep, CompleteStep, ReturnStep, OtherSteps DEF CallStep

\* The entries, their keys and their followers, with the scheduler beneath.
THEOREM SharingInvariant == Spec => [](SharingInv /\ SubmittedAreCalling)
  <1>1. SharingInv /\ SubmittedAreCalling /\ [Next]_vars => SharingInv'
    BY CallSharing, LeadStep, FollowStep, OtherSteps, AskedIsOne DEF Next, vars
  <1>2. /\ SharingInv /\ SubmittedAreCalling /\ SchedulerIInv /\ [Next]_vars
        => SubmittedAreCalling'
    BY StepKeepsCalling DEF SharingInv
  <1> QED
    BY <1>1, <1>2, InitSharing, InitCalling, CallsUseScheduler,
       SchedulerInvariant, PTL DEF Spec

\* create_text never has two requests for one fingerprint under way.
THEOREM SharesRequests == Spec => []OneRequestPerFingerprint
  <1>1. SharingInv => OneRequestPerFingerprint
    BY DEF SharingInv, LeadersAreEntries, KeysAreUnique, OneRequestPerFingerprint
  <1> QED  BY <1>1, SharingInvariant, PTL

\* A call never finds the future of a request that is over.
THEOREM EntriesAlwaysPending == Spec => []EntriesArePending
  <1>1. SharingInv => EntriesArePending
    BY DEF SharingInv, SharingTypes, LeadersAreEntries, EntriesArePending
  <1> QED  BY <1>1, SharingInvariant, PTL

\* Whoever follows a request has a leader that will complete it, or refuse it.
THEOREM FollowersAlwaysHeld == Spec => []FollowersAreHeld
  <1>1. SharingInv => FollowersAreHeld
    BY DEF SharingInv
  <1> QED  BY <1>1, SharingInvariant, PTL
=============================================================================
