----------------------------- MODULE TokenBucket -----------------------------
(***************************************************************************)
(* SyncTokenBucket (algo/ropd_clients.py): the limit on requests or tokens *)
(* per minute that all threads of a provider share.  A tick is the time in *)
(* which one token is added.  A request of up to max_tokens sleeps and     *)
(* tries again until the tokens are there; a larger one takes its tokens   *)
(* at once, which leaves a debt, and sleeps once.                          *)
(*                                                                         *)
(* Tokens and time are whole numbers here and real ones in the code; that  *)
(* a thread oversleeps is modelled by time that passes it by.              *)
(***************************************************************************)
EXTENDS Integers

CONSTANTS
  Threads,
  MaxTokens,   \* max_tokens
  Sizes,       \* tokens a request may need
  MaxTime      \* bound: the clock

ASSUME TokenBucketAssumption ==
  /\ MaxTokens \in Nat \ {0}
  /\ Sizes \subseteq Nat \ {0}
  /\ MaxTime \in Nat

VARIABLES
  now,         \* time_fn()
  tokens,      \* _tokens
  lastUpdate,  \* _last_update
  need,        \* tokens each thread's request needs
  wakeAt,      \* when its sleep is over
  state,       \* "out", "trying", or "granted": its sleep is the last one
  watchedAt,   \* history: when an observer began to watch,
  taken        \* and the tokens taken since, by requests that fit

vars == <<now, tokens, lastUpdate, need, wakeAt, state, watchedAt, taken>>

Init ==
  /\ now = 0 /\ tokens = MaxTokens /\ lastUpdate = 0
  /\ need = [t \in Threads |-> 0]
  /\ wakeAt = [t \in Threads |-> 0]
  /\ state = [t \in Threads |-> "out"]
  /\ watchedAt = 0 /\ taken = 0

Least(a, b) == IF a <= b THEN a ELSE b

Greatest(a, b) == IF a >= b THEN a ELSE b

RefilledUncapped == tokens + (now - lastUpdate)   \* mutant: credit is hoarded

Refilled == Least(MaxTokens, tokens + (now - lastUpdate))

Fits(n) == n <= MaxTokens

Call(t, n) ==
  /\ state[t] = "out"
  /\ need' = [need EXCEPT ![t] = n]
  /\ wakeAt' = [wakeAt EXCEPT ![t] = now]
  /\ state' = [state EXCEPT ![t] = "trying"]
  /\ UNCHANGED <<now, tokens, lastUpdate, watchedAt, taken>>

\* One pass under the lock.
Awake(t) ==
  /\ state[t] = "trying"
  /\ wakeAt[t] <= now
  /\ lastUpdate' = now
  /\ UNCHANGED <<now, need, watchedAt>>

Take(t) ==
  /\ Awake(t) /\ Fits(need[t])
  /\ Refilled >= need[t]
  /\ tokens' = Refilled - need[t]
  /\ taken' = taken + need[t]
  /\ state' = [state EXCEPT ![t] = "out"]
  /\ UNCHANGED wakeAt

SleepAgain(t) ==
  /\ Awake(t) /\ Fits(need[t])
  /\ Refilled < need[t]
  /\ tokens' = Refilled
  /\ wakeAt' = [wakeAt EXCEPT ![t] = now + (need[t] - Refilled)]
  /\ UNCHANGED <<state, taken>>

Indebted(n) == Refilled - n   \* mutant: the debt has no floor

\* A request that does not fit: the debt is cut off at -max_tokens.
Debt(n) == Greatest(-MaxTokens, Refilled - n)

TakeInAdvance(t) ==
  /\ Awake(t) /\ ~Fits(need[t])
  /\ tokens' = Debt(need[t])
  /\ wakeAt' = [wakeAt EXCEPT ![t] = now + Greatest(0, need[t] - Refilled)]
  /\ state' = [state EXCEPT ![t] = "granted"]
  /\ UNCHANGED taken

SleptOnce(t) ==
  /\ state[t] = "granted"
  /\ wakeAt[t] <= now
  /\ state' = [state EXCEPT ![t] = "out"]
  /\ UNCHANGED <<now, tokens, lastUpdate, need, wakeAt, watchedAt, taken>>

Tick ==
  /\ now < MaxTime
  /\ now' = now + 1
  /\ UNCHANGED <<tokens, lastUpdate, need, wakeAt, state, watchedAt, taken>>

\* History only: an interval to measure may begin at any moment.
Watch ==
  /\ watchedAt' = now /\ taken' = 0
  /\ UNCHANGED <<now, tokens, lastUpdate, need, wakeAt, state>>

ThreadStep(t) == Take(t) \/ SleepAgain(t) \/ TakeInAdvance(t) \/ SleptOnce(t)

Next ==
  \/ \E t \in Threads : (\E n \in Sizes : Call(t, n)) \/ ThreadStep(t)
  \/ Tick \/ Watch

Spec == Init /\ [][Next]_vars

-----------------------------------------------------------------------------
TypeOK ==
  /\ now \in 0..MaxTime /\ lastUpdate \in 0..now /\ watchedAt \in 0..now
  /\ tokens \in -MaxTokens..MaxTokens
  /\ need \in [Threads -> Nat]
  /\ wakeAt \in [Threads -> Int]
  /\ state \in [Threads -> {"out", "trying", "granted"}]
  /\ taken \in Nat

\* In any interval, whenever it begins, the requests that fit take no more
\* than a full bucket and what is added meanwhile: time spent idle is not
\* saved up, and threads that wake at once do not share the same tokens.
TakenWithinRate == taken <= MaxTokens + (now - watchedAt)

\* No thread is ever told to sleep longer than the debt of one full bucket
\* and its own tokens, however many large requests came before.
SleepIsBounded ==
  \A t \in Threads : wakeAt[t] <= now + MaxTokens + need[t]
=============================================================================
