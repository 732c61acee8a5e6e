-------------------------- MODULE RequestScheduler --------------------------
(***************************************************************************)
(* BoundedRequestScheduler (algo/ropd_scheduler.py): a bounded priority    *)
(* queue between the threads that need an answer from a judge provider     *)
(* (Callers, each blocked in submit until its future is completed) and a   *)
(* fixed pool of worker threads.  One condition variable guards the queue: *)
(* a critical section is one step, wait() parks the thread until the next  *)
(* notify_all(), and a notified thread competes for the lock again.        *)
(*                                                                         *)
(* submit() blocks, so a caller has at most one request and names it.  The *)
(* heap is the set `queue' ordered by `ticket'.                            *)
(***************************************************************************)
EXTENDS Integers, FiniteSets

CONSTANTS
  Workers,               \* the worker threads
  Callers,               \* the threads that call submit()
  MaxQueueSize,          \* capacity of the heap
  StagePriorityEnabled,  \* order by stage, or by arrival only
  MaxRequests            \* bound: no call starts after so many requests

ASSUME SchedulerAssumption ==
  /\ Workers # {}
  /\ IsFiniteSet(Callers)
  /\ Workers \cap Callers = {}
  /\ MaxQueueSize \in Nat \ {0}
  /\ StagePriorityEnabled \in BOOLEAN
  /\ MaxRequests \in Nat

Stages == {"teacher", "rubricator", "verifier"}

ROPD_STAGE_PRIORITY == [teacher |-> 0, rubricator |-> 1, verifier |-> 2]

Priority(stage) ==
  IF StagePriorityEnabled THEN ROPD_STAGE_PRIORITY[stage] ELSE 0

VARIABLES
  caller,    \* where each caller is in submit()
  worker,    \* where each worker is in _worker_loop()
  queue,     \* callers whose request is in the heap
  ticket,    \* [priority, number] of each caller's request
  sequence,  \* next sequence number
  running,   \* <<worker, caller>>: the requests being executed
  owner      \* the thread that closes the scheduler

schedulerVars == <<caller, worker, queue, ticket, sequence, running, owner>>

CallerStates ==
  {"idle", "scheduling", "waiting", "woken", "awaiting", "answered"}
WorkerStates == {"looping", "waiting", "serving", "exited"}

SchedulerTypeOK ==
  /\ caller \in [Callers -> CallerStates]
  /\ worker \in [Workers -> WorkerStates]
  /\ queue \in SUBSET Callers
  /\ ticket \in [Callers -> [priority : 0..2, number : Nat]]
  /\ sequence \in Nat
  /\ running \in SUBSET (Workers \X Callers)
  /\ owner \in {"open", "joining", "closed"}

NoTicket == [priority |-> 0, number |-> 0]

SchedulerInit ==
  /\ caller = [c \in Callers |-> "idle"]
  /\ worker = [w \in Workers |-> "looping"]
  /\ queue = {}
  /\ ticket = [c \in Callers |-> NoTicket]
  /\ sequence = 0
  /\ running = {}
  /\ owner = "open"

IsShutdown == owner # "open"

Full == Cardinality(queue) >= MaxQueueSize

\* In schedule(), before its first test or woken for another one.
Scheduling(c) == caller[c] \in {"scheduling", "woken"}

\* mutant: `if' for `while' around wait(), a woken thread does not test again
MayPushOnceWoken(c) == ~Full \/ caller[c] = "woken"

MayPush(c) == ~Full

Parked ==
  {c \in Callers : caller[c] = "waiting"} \cup
  {w \in Workers : worker[w] = "waiting"}

\* mutant: notify() for notify_all()
NotifiedOne == {t \in Parked : t = CHOOSE u \in Parked : TRUE}

Notified == Parked

\* Whoever is notified competes for the lock again.
Wake(threads, ready) ==
  [t \in DOMAIN threads |-> IF t \in Notified THEN ready ELSE threads[t]]

-----------------------------------------------------------------------------
(* submit(), in the caller's thread *)

Submit(c, stage) ==
  /\ caller[c] = "idle"
  /\ sequence < MaxRequests
  /\ ticket' = [ticket EXCEPT ![c] =
                  [priority |-> Priority(stage), number |-> 0]]
  /\ caller' = [caller EXCEPT ![c] = "scheduling"]
  /\ UNCHANGED <<worker, queue, sequence, running, owner>>

ScheduleWaits(c) ==
  /\ Scheduling(c)
  /\ Full
  /\ ~IsShutdown
  /\ caller' = [caller EXCEPT ![c] = "waiting"]
  /\ UNCHANGED <<worker, queue, ticket, sequence, running, owner>>

\* RuntimeError: the scheduler is shut down.
ScheduleRefused(c) ==
  /\ Scheduling(c)
  /\ IsShutdown
  /\ caller' = [caller EXCEPT ![c] = "idle"]
  /\ UNCHANGED <<worker, queue, ticket, sequence, running, owner>>

SchedulePushes(c) ==
  /\ Scheduling(c)
  /\ MayPush(c)
  /\ ~IsShutdown
  /\ ticket' = [ticket EXCEPT ![c] = [priority |-> ticket[c].priority,
                                       number |-> sequence]]
  /\ sequence' = sequence + 1
  /\ queue' = queue \cup {c}
  /\ caller' = [Wake(caller, "woken") EXCEPT ![c] = "awaiting"]
  /\ worker' = Wake(worker, "looping")
  /\ UNCHANGED <<running, owner>>

\* future.result() returns or raises what the worker put there.
Return(c) ==
  /\ caller[c] = "answered"
  /\ caller' = [caller EXCEPT ![c] = "idle"]
  /\ UNCHANGED <<worker, queue, ticket, sequence, running, owner>>

-----------------------------------------------------------------------------
(* _worker_loop() *)

\* mutant: among equals the newest goes first
BeforeNewest(c, d) ==
  \/ ticket[c].priority < ticket[d].priority
  \/ /\ ticket[c].priority = ticket[d].priority
     /\ ticket[c].number > ticket[d].number

\* The order of ScheduledRequest: the stage, then the age.
Before(c, d) ==
  \/ ticket[c].priority < ticket[d].priority
  \/ /\ ticket[c].priority = ticket[d].priority
     /\ ticket[c].number < ticket[d].number

WorkerWaits(w) ==
  /\ worker[w] = "looping"
  /\ queue = {}
  /\ ~IsShutdown
  /\ worker' = [worker EXCEPT ![w] = "waiting"]
  /\ UNCHANGED <<caller, queue, ticket, sequence, running, owner>>

MayExitEarly == IsShutdown   \* mutant: leaves the queue undrained

MayExit == IsShutdown /\ queue = {}

WorkerExits(w) ==
  /\ worker[w] = "looping"
  /\ MayExit
  /\ worker' = [worker EXCEPT ![w] = "exited"]
  /\ UNCHANGED <<caller, queue, ticket, sequence, running, owner>>

WorkerTakes(w) ==
  /\ worker[w] = "looping"
  /\ \E c \in queue :
       /\ \A d \in queue : ~Before(d, c)
       /\ queue' = queue \ {c}
       /\ ticket' = [ticket EXCEPT ![c] = NoTicket]
       /\ running' = running \cup {<<w, c>>}
  /\ worker' = [Wake(worker, "looping") EXCEPT ![w] = "serving"]
  /\ caller' = Wake(caller, "woken")
  /\ UNCHANGED <<sequence, owner>>

\* set_result() or set_exception(), outside the lock.
WorkerAnswers(w) ==
  /\ worker[w] = "serving"
  /\ \E c \in Callers :
       /\ <<w, c>> \in running
       /\ running' = running \ {<<w, c>>}
       /\ caller' = [caller EXCEPT ![c] = "answered"]
  /\ worker' = [worker EXCEPT ![w] = "looping"]
  /\ UNCHANGED <<queue, ticket, sequence, owner>>

-----------------------------------------------------------------------------
(* shutdown(wait=True), called by OpenAICompatibleProvider.close() *)

Shutdown ==
  /\ owner = "open"
  /\ owner' = "joining"
  /\ caller' = Wake(caller, "woken")
  /\ worker' = Wake(worker, "looping")
  /\ UNCHANGED <<queue, ticket, sequence, running>>

Joined ==
  /\ owner = "joining"
  /\ \A w \in Workers : worker[w] = "exited"
  /\ owner' = "closed"
  /\ UNCHANGED <<caller, worker, queue, ticket, sequence, running>>

-----------------------------------------------------------------------------
CallerStep(c) ==
  ScheduleWaits(c) \/ ScheduleRefused(c) \/ SchedulePushes(c) \/ Return(c)

WorkerStep(w) ==
  WorkerWaits(w) \/ WorkerExits(w) \/ WorkerTakes(w) \/ WorkerAnswers(w)

SchedulerNext ==
  \/ \E c \in Callers :
       CallerStep(c) \/ \E stage \in Stages : Submit(c, stage)
  \/ \E w \in Workers : WorkerStep(w)
  \/ Shutdown
  \/ Joined

SchedulerSpec == SchedulerInit /\ [][SchedulerNext]_schedulerVars

-----------------------------------------------------------------------------
\* Backpressure holds: however many submitters a notify_all() wakes at once,
\* the heap never outgrows max_queue_size (the `while' around wait()).
WithinCapacity == Cardinality(queue) <= MaxQueueSize

\* No wakeup is lost on the one condition that submitters and workers share:
\* whoever is parked on it still has a reason to be.
NobodyOversleeps ==
  /\ \A c \in Callers : caller[c] = "waiting" => Full /\ ~IsShutdown
  /\ \A w \in Workers : worker[w] = "waiting" => queue = {} /\ ~IsShutdown

\* A request that schedule() accepted is in the heap or with exactly one
\* worker that has not left, through shutdown too: no future is abandoned,
\* and no request is run twice.
AcceptedIsHeld ==
  \A c \in Callers : caller[c] = "awaiting" =>
    \/ /\ c \in queue
       /\ \A w \in Workers : <<w, c>> \notin running
       /\ \E w \in Workers : worker[w] # "exited"
    \/ /\ c \notin queue
       /\ \E w \in Workers :
            /\ worker[w] = "serving"
            /\ \A v \in Workers : <<v, c>> \in running <=> v = w

\* A worker never starts a request while one of a more urgent stage, or an
\* older one of the same stage, is left in the heap.
LeavesNoneMoreUrgent ==
  \A c \in queue \ queue' : \A d \in queue' :
    \/ ticket[c].priority < ticket[d].priority
    \/ /\ ticket[c].priority = ticket[d].priority
       /\ ticket[c].number < ticket[d].number

UrgentFirst == [][LeavesNoneMoreUrgent]_schedulerVars

\* shutdown(wait=True) returns: the queue is drained and the workers leave.
ShutdownReturns == owner = "joining" ~> owner = "closed"
=============================================================================
