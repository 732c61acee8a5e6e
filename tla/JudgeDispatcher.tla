--------------------------- MODULE JudgeDispatcher ---------------------------
(***************************************************************************)
(* StrictAsyncJudgeDispatcher of fully_async_main.py, the judge actors it  *)
(* feeds round-robin, and the two bounded group queues                     *)
(* (black_opd_queue.py) on either side of it.                              *)
(*                                                                         *)
(* run() is one sequential loop of remote calls, one action each.  A judge *)
(* actor scores its samples one at a time, in the order it was given them. *)
(* stop() cannot run while run() does, as the actor is single-threaded, so *)
(* self._running is TRUE throughout.                                       *)
(***************************************************************************)
EXTENDS Naturals, Sequences, FiniteSets

CONSTANTS
  JudgeWorkerCount,   (* strict_async.judge_worker_count *)
  RawQueueSize,       (* strict_async.raw_group_queue_size *)
  ScoredQueueSize,    (* strict_async.scored_group_queue_size *)
  FailPolicy,         (* strict_async.fail_policy *)
  JudgeCanFail        (* whether scoring may raise *)

ASSUME DispatcherAssumption ==
  /\ JudgeWorkerCount \in Nat \ {0}
  /\ RawQueueSize \in Nat \ {0}
  /\ ScoredQueueSize \in Nat \ {0}
  /\ FailPolicy \in {"stop", "skip"}
  /\ JudgeCanFail \in BOOLEAN

EndMarker == 0  (* None; samples are numbered from 1 *)

VARIABLES
  rawQueue, scoredQueue,
  dispatcher,     (* where run() is *)
  upstreamDone,   (* upstream_done *)
  workerIndex,    (* worker_index modulo the number of workers *)
  judging,        (* per judge actor, the samples it has been given *)
  scored,         (* pending references that hold a score *)
  unscored,       (* pending references that hold an exception *)
  payload,        (* the sample between ray.get and mark_reward_done *)
  unjudged        (* samples whose exception ray.get raised: history *)

judgeVars == <<judging, scored, unscored, unjudged>>
dispatcherVars == <<dispatcher, upstreamDone, workerIndex, payload>>

Workers == 0 .. JudgeWorkerCount - 1

DispatcherInit ==
  /\ rawQueue = <<>> /\ scoredQueue = <<>>
  /\ dispatcher = "pull" /\ upstreamDone = FALSE /\ workerIndex = 0
  /\ judging = [w \in Workers |-> <<>>]
  /\ scored = {} /\ unscored = {} /\ payload = EndMarker /\ unjudged = {}

-----------------------------------------------------------------------------
(* BoundedGroupQueueState.  put_nowait refuses an item when the queue is   *)
(* full; its callers ask again until it does not.                          *)

RoomUnasked(q, size) == TRUE   \* mutant: a refusal is taken for success

HasRoom(q, size) == Len(q) < size

PutNowait(q, size, item) == IF Len(q) < size THEN Append(q, item) ELSE q

-----------------------------------------------------------------------------
(* Judge actors *)

JudgeFinishes(w) ==
  /\ judging[w] # <<>>
  /\ judging' = [judging EXCEPT ![w] = Tail(@)]
  /\ \/ /\ scored' = scored \union {Head(judging[w])}
        /\ UNCHANGED unscored
     \/ /\ JudgeCanFail
        /\ unscored' = unscored \union {Head(judging[w])}
        /\ UNCHANGED scored
  /\ UNCHANGED <<rawQueue, scoredQueue, unjudged, dispatcherVars>>

Pending == scored \union unscored
           \union UNION {{judging[w][i] : i \in DOMAIN judging[w]} :
                           w \in Workers}

-----------------------------------------------------------------------------
(* run() *)

Pull ==
  /\ dispatcher = "pull"
  /\ ~upstreamDone
  /\ rawQueue # <<>>
  /\ rawQueue' = Tail(rawQueue)
  /\ \/ /\ Head(rawQueue) = EndMarker
        /\ upstreamDone' = TRUE
        /\ UNCHANGED <<workerIndex, judging>>
     \/ /\ Head(rawQueue) # EndMarker
        /\ judging' =
             [judging EXCEPT ![workerIndex] = Append(@, Head(rawQueue))]
        /\ workerIndex' = (workerIndex + 1) % JudgeWorkerCount
        /\ UNCHANGED upstreamDone
  /\ UNCHANGED <<scoredQueue, dispatcher, payload, scored, unscored,
                 unjudged>>

PullNothing ==
  /\ dispatcher = "pull"
  /\ upstreamDone \/ rawQueue = <<>>
  /\ dispatcher' = "reap"
  /\ UNCHANGED <<rawQueue, scoredQueue, upstreamDone, workerIndex, payload,
                 judgeVars>>

(* An exception leaves run() through its finally clause, or is swallowed.  *)
AfterError == IF FailPolicy = "stop" THEN "endRaising" ELSE "pull"

(* ray.wait hands back the references that are still pending. *)
Without(refs, s) == refs \ {s}

ReapScore(s) ==
  /\ dispatcher = "reap"
  /\ \/ /\ s \in scored
        /\ scored' = Without(scored, s)
        /\ payload' = s
        /\ dispatcher' = "publish"
        /\ UNCHANGED <<unscored, unjudged>>
     \/ /\ s \in unscored
        /\ unscored' = Without(unscored, s)
        /\ unjudged' = unjudged \union {s}
        /\ dispatcher' = AfterError
        /\ UNCHANGED <<scored, payload>>
  /\ UNCHANGED <<rawQueue, scoredQueue, upstreamDone, workerIndex, judging>>

NothingLeft == upstreamDone /\ Pending = {}

(* ray.wait timed out, or nothing was pending. *)
ReapNothing ==
  /\ dispatcher = "reap"
  /\ scored = {} /\ unscored = {}
  /\ dispatcher' = IF NothingLeft THEN "end" ELSE "pull"
  /\ UNCHANGED <<rawQueue, scoredQueue, upstreamDone, workerIndex, payload,
                 judgeVars>>

Publish ==
  /\ dispatcher = "publish"
  /\ HasRoom(scoredQueue, ScoredQueueSize)
  /\ scoredQueue' = PutNowait(scoredQueue, ScoredQueueSize, payload)
  /\ dispatcher' = "mark"
  /\ UNCHANGED <<rawQueue, upstreamDone, workerIndex, payload, judgeVars>>

(* ok: mark_reward_done returned, rather than raised KeyError. *)
Marked(ok) ==
  /\ dispatcher = "mark"
  /\ dispatcher' = IF ok THEN "pull" ELSE AfterError
  /\ payload' = EndMarker
  /\ UNCHANGED <<rawQueue, scoredQueue, upstreamDone, workerIndex, judgeVars>>

(* The finally clause. *)
PublishEnd ==
  /\ dispatcher \in {"end", "endRaising"}
  /\ HasRoom(scoredQueue, ScoredQueueSize)
  /\ scoredQueue' = PutNowait(scoredQueue, ScoredQueueSize, EndMarker)
  /\ dispatcher' = IF dispatcher = "end" THEN "exited" ELSE "raised"
  /\ UNCHANGED <<rawQueue, upstreamDone, workerIndex, payload, judgeVars>>

DispatcherTypeOK ==
  /\ dispatcher \in {"pull", "reap", "publish", "mark", "end", "endRaising",
                     "exited", "raised"}
  /\ upstreamDone \in BOOLEAN
  /\ workerIndex \in Workers
=============================================================================
