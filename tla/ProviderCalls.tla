---------------------------- MODULE ProviderCalls ----------------------------
(***************************************************************************)
(* OpenAICompatibleProvider.create_text (algo/ropd_clients.py): concurrent *)
(* calls with the same fingerprint share one request.  The first caller    *)
(* registers a future under the fingerprint (the leader), goes through the *)
(* scheduler, removes the entry and completes the future; whoever finds an *)
(* entry follows it.  Composed with RequestScheduler, whose threads the    *)
(* leaders are.                                                            *)
(*                                                                         *)
(* A payload that has no fingerprint (it is not JSON) is not shared and is *)
(* left out, as is a provider whose scheduler is disabled.                 *)
(***************************************************************************)
EXTENDS RequestScheduler

CONSTANTS
  Fingerprints,   \* what identifies a request
  StageOf,        \* the stage, which is part of what identifies it
  Asks            \* what each caller may ask for

ASSUME ProviderAssumption ==
  /\ Fingerprints # {}
  /\ StageOf \in [Fingerprints -> Stages]
  /\ Asks \in [Callers -> SUBSET Fingerprints]

VARIABLES
  phase,        \* where each caller is in create_text
  fingerprint,  \* of each caller's call
  inflight,     \* leaders whose future is in inflight_requests
  follows,      \* the leader whose future a follower awaits
  calls         \* calls made so far, up to MaxRequests

sharing == <<phase, fingerprint, inflight, follows, calls>>
vars == <<schedulerVars, sharing>>

Leading == {"leading", "submitted", "removing"}

TypeOK ==
  /\ SchedulerTypeOK
  /\ phase \in [Callers -> Leading \cup {"out", "completing", "following", "told"}]
  /\ fingerprint \in [Callers -> Fingerprints]
  /\ inflight \in SUBSET Callers
  /\ follows \in [Callers -> Callers]
  /\ calls \in 0..MaxRequests

\* What a thread that is in no call holds: of no consequence.
NoCall == CHOOSE f \in Fingerprints : TRUE

Init ==
  /\ SchedulerInit
  /\ phase = [c \in Callers |-> "out"]
  /\ fingerprint = [c \in Callers |-> NoCall]
  /\ inflight = {}
  /\ follows = [c \in Callers |-> c]
  /\ calls = 0

Sharing(f) == {c \in inflight : fingerprint[c] = f}

NobodyShares(f) == {}   \* mutant: the lookup and the insertion are apart

Existing(f) == Sharing(f)

\* _acquire_inflight_request: lookup and insertion under one lock.
Lead(c, f) ==
  /\ phase[c] = "out"
  /\ calls < MaxRequests
  /\ Existing(f) = {}
  /\ inflight' = inflight \cup {c}
  /\ fingerprint' = [fingerprint EXCEPT ![c] = f]
  /\ phase' = [phase EXCEPT ![c] = "leading"]
  /\ calls' = calls + 1
  /\ UNCHANGED <<schedulerVars, follows>>

Follow(c, f) ==
  /\ phase[c] = "out"
  /\ calls < MaxRequests
  /\ \E leader \in Existing(f) : follows' = [follows EXCEPT ![c] = leader]
  /\ phase' = [phase EXCEPT ![c] = "following"]
  /\ calls' = calls + 1
  /\ UNCHANGED <<schedulerVars, fingerprint, inflight>>

LeaderSubmits(c) ==
  /\ phase[c] = "leading"
  /\ Submit(c, StageOf[fingerprint[c]])
  /\ phase' = [phase EXCEPT ![c] = "submitted"]
  /\ UNCHANGED <<fingerprint, inflight, follows, calls>>

AfterRefusalGone == "out"   \* mutant: the error leaves create_text at once

\* `except BaseException': the future is completed with the error as well.
AfterRefusal == "removing"

\* submit() returned the answer, or raised what the request raised.
LeaderAnswered(c) ==
  /\ Return(c)
  /\ phase' = [phase EXCEPT ![c] = "removing"]
  /\ UNCHANGED <<fingerprint, inflight, follows, calls>>

\* submit() raised: the scheduler is shut down.
LeaderRefused(c) ==
  /\ ScheduleRefused(c)
  /\ phase' = [phase EXCEPT ![c] = AfterRefusal]
  /\ UNCHANGED <<fingerprint, inflight, follows, calls>>

\* mutant: the future is completed while its entry is still there
KeepEntry(c) ==
  /\ phase[c] = "removing"
  /\ phase' = [phase EXCEPT ![c] = "completing"]
  /\ UNCHANGED <<schedulerVars, fingerprint, inflight, follows, calls>>

\* _complete_inflight_request, under the lock ...
RemoveEntry(c) ==
  /\ phase[c] = "removing"
  /\ inflight' = inflight \ {c}
  /\ phase' = [phase EXCEPT ![c] = "completing"]
  /\ UNCHANGED <<schedulerVars, fingerprint, follows, calls>>

\* ... and set_result() or set_exception() after it.
CompleteFuture(c) ==
  /\ phase[c] = "completing"
  /\ phase' = [d \in Callers |->
       IF d = c THEN "out"
       ELSE IF phase[d] = "following" /\ follows[d] = c THEN "told"
       ELSE phase[d]]
  /\ fingerprint' = [fingerprint EXCEPT ![c] = NoCall]
  /\ UNCHANGED <<schedulerVars, inflight, follows, calls>>

\* _await_inflight_result returns, or raises a clone of the leader's error.
FollowerReturns(c) ==
  /\ phase[c] = "told"
  /\ phase' = [phase EXCEPT ![c] = "out"]
  /\ follows' = [follows EXCEPT ![c] = c]
  /\ UNCHANGED <<schedulerVars, fingerprint, inflight, calls>>

CallStep(c) ==
  \/ LeaderSubmits(c)
  \/ LeaderAnswered(c)
  \/ LeaderRefused(c)
  \/ RemoveEntry(c)
  \/ CompleteFuture(c)
  \/ FollowerReturns(c)
  \/ ScheduleWaits(c) /\ UNCHANGED sharing
  \/ SchedulePushes(c) /\ UNCHANGED sharing

Next ==
  \/ \E c \in Callers : \E f \in Asks[c] : Lead(c, f) \/ Follow(c, f)
  \/ \E c \in Callers : CallStep(c)
  \/ \E w \in Workers : WorkerStep(w) /\ UNCHANGED sharing
  \/ Shutdown /\ UNCHANGED sharing
  \/ Joined /\ UNCHANGED sharing

Spec == Init /\ [][Next]_vars

\* The fairness of RequestScheduler, and the callers run through create_text.
FairSpec ==
  /\ Spec
  /\ \A c \in Callers : WF_vars(CallStep(c))
  /\ \A w \in Workers : WF_vars(WorkerStep(w) /\ UNCHANGED sharing)
  /\ WF_vars(Joined /\ UNCHANGED sharing)

-----------------------------------------------------------------------------
\* Two calls with the same fingerprint never spend two requests at a time.
OneRequestPerFingerprint ==
  \A c, d \in Callers :
    phase[c] \in Leading /\ phase[d] \in Leading /\ c # d =>
      fingerprint[c] # fingerprint[d]

\* An entry of inflight_requests is a future still to be completed: a call
\* made after the answer is known starts a fresh request.
EntriesArePending == \A c \in inflight : phase[c] \in Leading

\* A follower's leader still has the future to complete.
FollowersAreHeld ==
  \A c \in Callers : phase[c] = "following" =>
    phase[follows[c]] \in Leading \cup {"completing"}

\* Leaders and followers come back, through shutdown too.
CreateTextReturns == \A c \in Callers : phase[c] # "out" ~> phase[c] = "out"
=============================================================================
