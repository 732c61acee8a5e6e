--------------------------- MODULE CircuitBreaker ---------------------------
(***************************************************************************)
(* BlackOPDProviderCircuitBreaker (algo/ropd_clients.py) of one stage, and *)
(* the requests that go through it: each thread runs _create_text_direct,  *)
(* which retries answers of bad quality, around _execute_with_retry, which *)
(* retries transport errors.  Every attempt asks allow_request() before it *)
(* is sent and reports its outcome later, each under the breaker's lock;   *)
(* the state may have moved on in between.                                 *)
(*                                                                         *)
(* Time is the cooldown only: it has elapsed or it has not.  Rate limiters *)
(* and backoff delay a thread and change nothing here.                     *)
(***************************************************************************)
EXTENDS Integers, FiniteSets, Sequences

CONSTANTS
  Requests,         \* the threads that make requests
  Threshold,        \* consecutive_retriable_errors
  WindowSize,       \* rolling_window_size
  ErrorsInWindow,   \* least number of errors with rolling_error_rate
  Probes,           \* half_open_probe_requests
  MaxRetries,       \* transport.max_retries
  QualityKinds,     \* incomplete, empty_response, parse_error, ...
  QualityRetries    \* retries of the role for each of them

ASSUME BreakerAssumption ==
  /\ IsFiniteSet(Requests)
  /\ Threshold \in Nat \ {0}
  /\ WindowSize \in Nat \ {0}
  /\ ErrorsInWindow \in 1..WindowSize
  /\ Probes \in Nat \ {0}
  /\ MaxRetries \in Nat
  /\ QualityRetries \in [QualityKinds -> Nat]

VARIABLES
  state,              \* closed, open or half_open
  cooledDown,         \* cooldown_seconds have passed since opened_at
  consecutive,        \* _consecutive_retriable_errors, up to Threshold
  outcomes,           \* _recent_outcomes: TRUE is an error
  halfOpenInFlight,
  halfOpenSuccesses,  \* up to Probes
  at,                 \* where each request is
  attempt,            \* its attempt_index
  retried,            \* its retries for each kind of bad answer
  probing,            \* history: admitted as probes since the breaker
                      \* last became half open, and not yet finished
  leaked              \* history: probes since then that no handler saw
                      \* the end of, up to Probes

breaker == <<state, cooledDown, consecutive, outcomes, halfOpenInFlight,
             halfOpenSuccesses>>
vars == <<breaker, at, attempt, retried, probing, leaked>>

BreakerTypeOK ==
  /\ state \in {"closed", "open", "half_open"}
  /\ cooledDown \in BOOLEAN
  /\ consecutive \in 0..Threshold
  /\ outcomes \in Seq(BOOLEAN) /\ Len(outcomes) <= WindowSize
  /\ halfOpenInFlight \in 0..Probes
  /\ halfOpenSuccesses \in 0..Probes

RequestTypeOK ==
  /\ at \in [Requests -> {"idle", "asking", "rejected", "sent"}]
  /\ attempt \in [Requests -> 0..MaxRetries]
  /\ retried \in [Requests -> [QualityKinds -> Nat]]
  /\ probing \in SUBSET Requests
  /\ leaked \in 0..Probes

TypeOK == BreakerTypeOK /\ RequestTypeOK

NoRetries == [kind \in QualityKinds |-> 0]

Init ==
  /\ state = "closed"
  /\ cooledDown = FALSE
  /\ consecutive = 0
  /\ outcomes = <<>>
  /\ halfOpenInFlight = 0
  /\ halfOpenSuccesses = 0
  /\ at = [r \in Requests |-> "idle"]
  /\ attempt = [r \in Requests |-> 0]
  /\ retried = [r \in Requests |-> NoRetries]
  /\ probing = {}
  /\ leaked = 0

-----------------------------------------------------------------------------
(* The breaker *)

UpTo(limit, n) == IF n > limit THEN limit ELSE n

\* The deque of at most rolling_window_size outcomes.
Recorded(outcome) ==
  LET grown == Append(outcomes, outcome)
  IN  IF Len(grown) > WindowSize THEN Tail(grown) ELSE grown

ErrorsIn(window) == Cardinality({i \in DOMAIN window : window[i]})

\* mutant: trips one error too late
TrippedLate(errors, window) ==
  \/ errors > Threshold
  \/ Len(window) > WindowSize /\ ErrorsIn(window) >= ErrorsInWindow

Tripped(errors, window) ==
  \/ errors >= Threshold
  \/ Len(window) >= WindowSize /\ ErrorsIn(window) >= ErrorsInWindow

OneLessUnchecked == halfOpenInFlight - 1   \* mutant: no max(0, ...)

OneLess == IF halfOpenInFlight > 0 THEN halfOpenInFlight - 1 ELSE 0

\* max(0, in_flight - 1) when half open, and only then.
ReleaseSlot ==
  halfOpenInFlight' = IF state = "half_open" THEN OneLess ELSE halfOpenInFlight

OpenLocked ==
  /\ state' = "open"
  /\ cooledDown' = FALSE
  /\ halfOpenInFlight' = 0
  /\ halfOpenSuccesses' = 0

CloseLocked ==
  /\ state' = "closed"
  /\ consecutive' = 0
  /\ outcomes' = <<>>
  /\ halfOpenInFlight' = 0
  /\ halfOpenSuccesses' = 0
  /\ UNCHANGED cooledDown

\* The probe that completes the evidence is the last one in flight.
Recovered ==
  /\ state = "half_open"
  /\ OneLess = 0
  /\ halfOpenSuccesses + 1 >= Probes

RecordSuccess ==
  \/ Recovered /\ CloseLocked
  \/ /\ ~Recovered
     /\ consecutive' = 0
     /\ outcomes' = Recorded(FALSE)
     /\ ReleaseSlot
     /\ halfOpenSuccesses' = IF state = "half_open"
                             THEN UpTo(Probes, halfOpenSuccesses + 1)
                             ELSE halfOpenSuccesses
     /\ UNCHANGED <<state, cooledDown>>

\* An error trips a closed breaker, restarts the cooldown of an open one
\* under the same condition, and always reopens a half-open one.
RecordRetriableError ==
  /\ consecutive' = UpTo(Threshold, consecutive + 1)
  /\ outcomes' = Recorded(TRUE)
  /\ IF state = "half_open" \/ Tripped(consecutive', outcomes')
     THEN OpenLocked
     ELSE UNCHANGED <<state, cooledDown, halfOpenInFlight, halfOpenSuccesses>>

\* mutant: an ignored failure keeps its slot
RecordIgnoredFailureOnly ==
  /\ consecutive' = 0
  /\ UNCHANGED <<state, cooledDown, outcomes, halfOpenInFlight, halfOpenSuccesses>>

RecordIgnoredFailure ==
  /\ consecutive' = 0
  /\ ReleaseSlot
  /\ UNCHANGED <<state, cooledDown, outcomes, halfOpenSuccesses>>

RecordNothing == UNCHANGED breaker   \* mutant: a bad answer keeps its slot

RecordResponseQualityFailure ==
  /\ ReleaseSlot
  /\ UNCHANGED <<state, cooledDown, consecutive, outcomes, halfOpenSuccesses>>

-----------------------------------------------------------------------------
(* A request: _create_text_direct, _execute_with_retry, _before_request *)

Call(r) ==
  /\ at[r] = "idle"
  /\ at' = [at EXCEPT ![r] = "asking"]
  /\ attempt' = [attempt EXCEPT ![r] = 0]
  /\ retried' = [retried EXCEPT ![r] = NoRetries]
  /\ UNCHANGED <<breaker, probing, leaked>>

HalfOpens == state = "open" /\ cooledDown

Rejects ==
  \/ state = "open" /\ ~cooledDown
  \/ state = "half_open" /\ halfOpenInFlight >= Probes

\* allow_request() returns True.
Admit(r) ==
  /\ at[r] = "asking"
  /\ ~Rejects
  /\ at' = [at EXCEPT ![r] = "sent"]
  /\ \/ /\ HalfOpens
        /\ state' = "half_open"
        /\ halfOpenInFlight' = 1
        /\ halfOpenSuccesses' = 0
        /\ probing' = {r}
        /\ leaked' = 0
     \/ /\ state = "half_open"
        /\ halfOpenInFlight' = halfOpenInFlight + 1
        /\ probing' = probing \cup {r}
        /\ UNCHANGED <<state, halfOpenSuccesses, leaked>>
     \/ /\ state = "closed"
        /\ UNCHANGED <<state, halfOpenInFlight, halfOpenSuccesses, probing, leaked>>
  /\ UNCHANGED <<cooledDown, consecutive, outcomes, attempt, retried>>

\* allow_request() returns False: the circuit_open error is raised inside
\* the retry loop, whose handler records it in a second critical section.
Reject(r) ==
  /\ at[r] = "asking"
  /\ Rejects
  /\ at' = [at EXCEPT ![r] = "rejected"]
  /\ UNCHANGED <<breaker, attempt, retried, probing, leaked>>

\* The attempt is over; the history forgets its probe, and everything when
\* the breaker leaves half_open.
Finish(r) ==
  /\ probing' = IF state' = "half_open" THEN probing \ {r} ELSE {}
  /\ leaked' = IF state' = "half_open" THEN leaked ELSE 0

\* circuit_open is not retriable: _after_request_failure, then raise.
RecordRejection(r) ==
  /\ at[r] = "rejected"
  /\ RecordIgnoredFailure
  /\ at' = [at EXCEPT ![r] = "idle"]
  /\ UNCHANGED <<attempt, retried, probing, leaked>>

Succeed(r) ==
  /\ at[r] = "sent"
  /\ RecordSuccess
  /\ Finish(r)
  /\ at' = [at EXCEPT ![r] = "idle"]
  /\ UNCHANGED <<attempt, retried>>

\* Timeouts, connection errors and transient HTTP statuses.
FailRetriably(r) ==
  /\ at[r] = "sent"
  /\ RecordRetriableError
  /\ Finish(r)
  /\ \/ /\ attempt[r] < MaxRetries
        /\ attempt' = [attempt EXCEPT ![r] = @ + 1]
        /\ at' = [at EXCEPT ![r] = "asking"]
     \/ /\ attempt[r] = MaxRetries
        /\ at' = [at EXCEPT ![r] = "idle"]
        /\ UNCHANGED attempt
  /\ UNCHANGED retried

\* Other HTTP statuses and errors inside the response.
FailForGood(r) ==
  /\ at[r] = "sent"
  /\ RecordIgnoredFailure
  /\ Finish(r)
  /\ at' = [at EXCEPT ![r] = "idle"]
  /\ UNCHANGED <<attempt, retried>>

OneMore(counts, kind) == [counts EXCEPT ![kind] = @ + 1]

\* The answer is empty, incomplete, or refused by the validator: a fresh
\* _execute_with_retry while the role has retries for this kind left.
FailQuality(r) ==
  /\ at[r] = "sent"
  /\ RecordResponseQualityFailure
  /\ Finish(r)
  /\ \E kind \in QualityKinds :
       \/ /\ retried[r][kind] < QualityRetries[kind]
          /\ retried' = [retried EXCEPT ![r] = OneMore(@, kind)]
          /\ attempt' = [attempt EXCEPT ![r] = 0]
          /\ at' = [at EXCEPT ![r] = "asking"]
       \/ /\ retried[r][kind] = QualityRetries[kind]
          /\ at' = [at EXCEPT ![r] = "idle"]
          /\ UNCHANGED <<attempt, retried>>

\* An exception that none of the handlers names leaves no record.
Escape(r) ==
  /\ at[r] = "sent"
  /\ at' = [at EXCEPT ![r] = "idle"]
  /\ probing' = probing \ {r}
  /\ leaked' = IF r \in probing THEN UpTo(Probes, leaked + 1) ELSE leaked
  /\ UNCHANGED <<breaker, attempt, retried>>

CooldownPasses ==
  /\ state = "open"
  /\ ~cooledDown
  /\ cooledDown' = TRUE
  /\ UNCHANGED <<state, consecutive, outcomes, halfOpenInFlight,
                 halfOpenSuccesses, at, attempt, retried, probing, leaked>>

RequestStep(r) ==
  \/ Admit(r)
  \/ Reject(r)
  \/ RecordRejection(r)
  \/ Succeed(r)
  \/ FailRetriably(r)
  \/ FailForGood(r)
  \/ FailQuality(r)
  \/ Escape(r)

Next ==
  \/ \E r \in Requests : Call(r) \/ RequestStep(r)
  \/ CooldownPasses

Spec == Init /\ [][Next]_vars

\* Threads are scheduled, every request ends, the cooldown passes, and the
\* training keeps asking.
FairSpec ==
  /\ Spec
  /\ \A r \in Requests : WF_vars(Call(r)) /\ WF_vars(RequestStep(r))
  /\ WF_vars(CooldownPasses)

-----------------------------------------------------------------------------
\* A run of consecutive_retriable_errors, or an error that brings a full
\* window to rolling_error_rate, never leaves the breaker closed, however
\* the outcomes of concurrent requests interleave.
TripsInTime ==
  state = "closed" =>
    /\ consecutive < Threshold
    /\ Len(outcomes) = WindowSize /\ outcomes[WindowSize]
         => ErrorsIn(outcomes) < ErrorsInWindow

\* A half-open breaker holds no slot for a probe that is over, but for those
\* whose exception no handler caught: without such, a breaker that nobody is
\* probing admits the next request.
NoSlotIsLost ==
  state = "half_open" => halfOpenInFlight <= Cardinality(probing) + leaked

\* Even when exceptions escape and their slots are never returned, requests that
\* keep coming are admitted again and again: a rejection frees a slot.
KeepsAdmitting == []<>(\E r \in Requests : at[r] = "sent")
=============================================================================
