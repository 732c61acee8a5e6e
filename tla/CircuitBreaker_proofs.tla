------------------------ MODULE CircuitBreaker_proofs ------------------------
(***************************************************************************)
(* The safety of BlackOPDProviderCircuitBreaker for any number of          *)
(* concurrent requests, any thresholds and any retries.                    *)
(*                                                                         *)
(* TripsInTime is inductive with the types.  NoSlotIsLost needs what the   *)
(* history is about: a probe is a request that is still out, and there are *)
(* none unless the breaker is half open.                                   *)
(***************************************************************************)
EXTENDS CircuitBreaker, FiniteSetTheorems, SequenceTheorems, TLAPS

ProbesAreOut ==
  /\ \A r \in probing : at[r] = "sent"
  /\ state # "half_open" => probing = {}

IInv == TypeOK /\ TripsInTime /\ ProbesAreOut

\* The window keeps its length, and its last outcome is the one recorded.
LEMMA RecordedFacts ==
  ASSUME BreakerTypeOK, NEW outcome \in BOOLEAN
  PROVE  /\ Recorded(outcome) \in Seq(BOOLEAN)
         /\ Len(Recorded(outcome)) <= WindowSize
         /\ Len(Recorded(outcome)) = WindowSize =>
              Recorded(outcome)[WindowSize] = outcome
<1> DEFINE grown == Append(outcomes, outcome)
<1>1. /\ grown \in Seq(BOOLEAN)
      /\ Len(grown) = Len(outcomes) + 1
      /\ grown[Len(outcomes) + 1] = outcome
      /\ Len(outcomes) \in Nat
      /\ WindowSize \in Nat \ {0}
  BY AppendProperties, LenProperties, BreakerAssumption DEF BreakerTypeOK
<1>2. CASE Len(grown) > WindowSize
  <2>1. Recorded(outcome) = Tail(grown)
    BY <1>2 DEF Recorded
  <2>2. Len(outcomes) = WindowSize /\ grown # <<>>
    BY <1>1, <1>2 DEF BreakerTypeOK
  <2>3. /\ Tail(grown) \in Seq(BOOLEAN)
        /\ Len(Tail(grown)) = WindowSize
        /\ Tail(grown)[WindowSize] = grown[WindowSize + 1]
    BY <1>1, <2>2, HeadTailProperties
  <2> QED BY <1>1, <2>1, <2>2, <2>3
<1>3. CASE ~(Len(grown) > WindowSize)
  <2>1. Recorded(outcome) = grown
    BY <1>3 DEF Recorded
  <2> QED BY <1>1, <1>3, <2>1
<1> QED BY <1>2, <1>3

\* A window has a number of errors.
LEMMA ErrorsInType ==
  ASSUME NEW window \in Seq(BOOLEAN)
  PROVE  ErrorsIn(window) \in Nat
<1>1. IsFiniteSet(DOMAIN window)
  BY FS_Interval, LenProperties
<1>2. IsFiniteSet({i \in DOMAIN window : window[i]})
  BY <1>1, FS_Subset
<1> QED BY <1>2, FS_CardinalityType DEF ErrorsIn

LEMMA InitEstablishes == Init => IInv
<1> SUFFICES ASSUME Init PROVE IInv
  OBVIOUS
<1> USE BreakerAssumption
<1>1. TypeOK
  <2>1. outcomes \in Seq(BOOLEAN) /\ Len(outcomes) = 0
    BY EmptySeq DEF Init
  <2>2. /\ state = "closed" /\ consecutive = 0
        /\ halfOpenInFlight = 0 /\ halfOpenSuccesses = 0
    BY DEF Init
  <2>3. cooledDown \in BOOLEAN
    BY Zenon DEF Init
  <2>4. BreakerTypeOK
    BY <2>1, <2>2, <2>3 DEF BreakerTypeOK
  <2>5. RequestTypeOK
    BY DEF Init, RequestTypeOK, NoRetries
  <2> QED BY <2>4, <2>5 DEF TypeOK
<1>2. TripsInTime
  <2>1. Len(outcomes) = 0
    BY EmptySeq DEF Init
  <2> QED BY <2>1 DEF Init, TripsInTime
<1>3. ProbesAreOut
  BY DEF Init, ProbesAreOut
<1> QED BY <1>1, <1>2, <1>3 DEF IInv

-----------------------------------------------------------------------------
(* What each report does to the breaker, whatever its state *)

\* A report keeps the types, never leaves a breaker closed that should have
\* tripped, and gives back one slot where it leaves the breaker half open.
LEMMA ReportFacts ==
  ASSUME BreakerTypeOK, TripsInTime,
         \/ RecordSuccess
         \/ RecordRetriableError
         \/ RecordIgnoredFailure
         \/ RecordResponseQualityFailure
  PROVE  /\ BreakerTypeOK'
         /\ TripsInTime'
         /\ state' = "half_open" => state = "half_open" /\ halfOpenInFlight' = OneLess
<1> USE BreakerAssumption
<1>1. OneLess \in 0..Probes
  BY DEF OneLess, BreakerTypeOK
<1>2. CASE RecordSuccess
  <2>1. CASE Recovered /\ CloseLocked
    <3>1. outcomes' \in Seq(BOOLEAN) /\ Len(outcomes') = 0
      BY <2>1, EmptySeq DEF CloseLocked
    <3> QED BY <2>1, <3>1 DEF CloseLocked, BreakerTypeOK, TripsInTime
  <2>2. CASE ~Recovered
    <3>1. /\ outcomes' \in Seq(BOOLEAN)
          /\ Len(outcomes') <= WindowSize
          /\ Len(outcomes') = WindowSize => ~outcomes'[WindowSize]
      BY <1>2, <2>2, RecordedFacts DEF RecordSuccess
    <3>2. consecutive' = 0 /\ state' = state /\ cooledDown' = cooledDown
      BY <1>2, <2>2 DEF RecordSuccess
    <3>3. halfOpenSuccesses' \in 0..Probes
      <4>1. halfOpenSuccesses' = IF state = "half_open"
                                 THEN UpTo(Probes, halfOpenSuccesses + 1)
                                 ELSE halfOpenSuccesses
        BY <1>2, <2>2 DEF RecordSuccess
      <4>2. halfOpenSuccesses \in 0..Probes /\ Probes \in Nat
        BY DEF BreakerTypeOK
      <4>3. UpTo(Probes, halfOpenSuccesses + 1) \in 0..Probes
        BY <4>2 DEF UpTo
      <4> QED BY <4>1, <4>2, <4>3
    <3>4. ReleaseSlot
      BY <1>2, <2>2 DEF RecordSuccess
    <3>5. halfOpenInFlight' \in 0..Probes
      BY <1>1, <3>4 DEF ReleaseSlot, BreakerTypeOK
    <3>6. BreakerTypeOK'
      BY <3>1, <3>2, <3>3, <3>5 DEF BreakerTypeOK
    <3>7. TripsInTime'
      BY <3>1, <3>2 DEF TripsInTime
    <3> QED BY <3>2, <3>4, <3>6, <3>7 DEF ReleaseSlot
  <2> QED BY <1>2, <2>1, <2>2 DEF RecordSuccess
<1>3. CASE RecordRetriableError
  <2>1. /\ outcomes' \in Seq(BOOLEAN)
        /\ Len(outcomes') <= WindowSize
    BY <1>3, RecordedFacts DEF RecordRetriableError
  <2>2. consecutive' \in 0..Threshold
    BY <1>3 DEF RecordRetriableError, UpTo, BreakerTypeOK
  <2>3. CASE state = "half_open" \/ Tripped(consecutive', outcomes')
    <3>1. OpenLocked
      BY <1>3, <2>3 DEF RecordRetriableError
    <3>2. /\ state' = "open"
          /\ halfOpenInFlight' = 0 /\ halfOpenSuccesses' = 0
      BY <3>1 DEF OpenLocked
    <3>3. cooledDown' \in BOOLEAN
      BY <3>1, Zenon DEF OpenLocked
    <3>4. BreakerTypeOK'
      BY <2>1, <2>2, <3>2, <3>3 DEF BreakerTypeOK
    <3> QED BY <3>2, <3>4 DEF TripsInTime
  <2>4. CASE ~(state = "half_open" \/ Tripped(consecutive', outcomes'))
    <3>1. UNCHANGED <<state, cooledDown, halfOpenInFlight, halfOpenSuccesses>>
      BY <1>3, <2>4 DEF RecordRetriableError
    <3>2. BreakerTypeOK'
      BY <2>1, <2>2, <3>1 DEF BreakerTypeOK
    <3>3. ErrorsIn(outcomes') \in Nat /\ Len(outcomes') \in Nat
      BY <2>1, ErrorsInType, LenProperties
    <3>4. TripsInTime'
      BY <2>2, <2>4, <3>3 DEF Tripped, TripsInTime
    <3> QED BY <2>4, <3>1, <3>2, <3>4
  <2> QED BY <2>3, <2>4
<1>4. CASE RecordIgnoredFailure
  <2>1. halfOpenInFlight' \in 0..Probes
    BY <1>1, <1>4 DEF RecordIgnoredFailure, ReleaseSlot, BreakerTypeOK
  <2> QED BY <1>4, <2>1
          DEF RecordIgnoredFailure, ReleaseSlot, BreakerTypeOK, TripsInTime
<1>5. CASE RecordResponseQualityFailure
  <2>1. halfOpenInFlight' \in 0..Probes
    BY <1>1, <1>5 DEF RecordResponseQualityFailure, ReleaseSlot, BreakerTypeOK
  <2> QED BY <1>5, <2>1
          DEF RecordResponseQualityFailure, ReleaseSlot, BreakerTypeOK, TripsInTime
<1> QED BY <1>2, <1>3, <1>4, <1>5

-----------------------------------------------------------------------------
(* The steps of the requests *)

LEMMA StepKeepsRequestTypes == TypeOK /\ [Next]_vars => RequestTypeOK'
<1> SUFFICES ASSUME TypeOK, [Next]_vars PROVE RequestTypeOK'
  OBVIOUS
<1> USE BreakerAssumption DEF TypeOK, RequestTypeOK
<1>1. ASSUME NEW r \in Requests, Call(r) PROVE RequestTypeOK'
  BY <1>1 DEF Call, NoRetries
<1>2. ASSUME NEW r \in Requests, Admit(r) PROVE RequestTypeOK'
  BY <1>2 DEF Admit
<1>3. ASSUME NEW r \in Requests, Reject(r) \/ RecordRejection(r) PROVE RequestTypeOK'
  BY <1>3 DEF Reject, RecordRejection
<1>4. ASSUME NEW r \in Requests, Succeed(r) \/ FailForGood(r) \/ Escape(r)
      PROVE  RequestTypeOK'
  <2>1. probing' \in SUBSET Requests /\ leaked' \in 0..Probes
    BY <1>4 DEF Succeed, FailForGood, Escape, Finish, UpTo
  <2>2. /\ at' = [at EXCEPT ![r] = "idle"]
        /\ UNCHANGED <<attempt, retried>>
    BY <1>4 DEF Succeed, FailForGood, Escape
  <2> QED BY <2>1, <2>2
<1>5. ASSUME NEW r \in Requests, FailRetriably(r) PROVE RequestTypeOK'
  <2>1. /\ probing' \in SUBSET Requests /\ leaked' \in 0..Probes
        /\ retried' = retried
    BY <1>5 DEF FailRetriably, Finish
  <2>2. at' \in [Requests -> {"idle", "asking", "rejected", "sent"}]
    BY <1>5 DEF FailRetriably
  <2>3. attempt' \in [Requests -> 0..MaxRetries]
    BY <1>5 DEF FailRetriably
  <2> QED BY <2>1, <2>2, <2>3
<1>6. ASSUME NEW r \in Requests, FailQuality(r) PROVE RequestTypeOK'
  <2>1. probing' \in SUBSET Requests /\ leaked' \in 0..Probes
    BY <1>6 DEF FailQuality, Finish
  <2>2. CASE /\ at' = [at EXCEPT ![r] = "idle"]
             /\ UNCHANGED <<attempt, retried>>
    BY <2>1, <2>2
  <2>3. ASSUME NEW kind \in QualityKinds,
               retried' = [retried EXCEPT ![r] = OneMore(retried[r], kind)],
               attempt' = [attempt EXCEPT ![r] = 0],
               at' = [at EXCEPT ![r] = "asking"]
        PROVE  RequestTypeOK'
    <3>1. OneMore(retried[r], kind) \in [QualityKinds -> Nat]
      BY DEF OneMore
    <3> QED BY <2>1, <2>3, <3>1
  <2> QED BY <1>6, <2>2, <2>3 DEF FailQuality
<1>7. CASE CooldownPasses \/ UNCHANGED vars
  BY <1>7 DEF CooldownPasses, vars
<1> QED BY <1>1, <1>2, <1>3, <1>4, <1>5, <1>6, <1>7 DEF Next, RequestStep

\* A report is the only way a request changes the breaker, but for the
\* admission of a probe.
LEMMA ReportSteps ==
  ASSUME NEW r \in Requests,
         \/ RecordRejection(r) \/ Succeed(r) \/ FailRetriably(r)
         \/ FailForGood(r) \/ FailQuality(r)
  PROVE  \/ RecordSuccess \/ RecordRetriableError \/ RecordIgnoredFailure
         \/ RecordResponseQualityFailure
BY DEF RecordRejection, Succeed, FailRetriably, FailForGood, FailQuality

LEMMA StepKeepsBreaker ==
  TypeOK /\ TripsInTime /\ [Next]_vars => BreakerTypeOK' /\ TripsInTime'
<1> SUFFICES ASSUME TypeOK, TripsInTime, [Next]_vars
             PROVE  BreakerTypeOK' /\ TripsInTime'
  OBVIOUS
<1> USE BreakerAssumption DEF TypeOK
<1>1. ASSUME NEW r \in Requests,
             \/ RecordRejection(r) \/ Succeed(r) \/ FailRetriably(r)
             \/ FailForGood(r) \/ FailQuality(r)
      PROVE  BreakerTypeOK' /\ TripsInTime'
  BY <1>1, ReportSteps, ReportFacts
<1>2. ASSUME NEW r \in Requests, Admit(r) PROVE BreakerTypeOK' /\ TripsInTime'
  <2>1. UNCHANGED <<cooledDown, consecutive, outcomes>>
    BY <1>2 DEF Admit
  <2>2. /\ state' \in {"closed", "open", "half_open"}
        /\ halfOpenInFlight' \in 0..Probes
        /\ halfOpenSuccesses' \in 0..Probes
        /\ state' = "closed" => state = "closed"
    BY <1>2 DEF Admit, Rejects, BreakerTypeOK
  <2>3. BreakerTypeOK'
    BY <2>1, <2>2 DEF BreakerTypeOK
  <2> QED BY <2>1, <2>2, <2>3 DEF TripsInTime
<1>3. ASSUME UNCHANGED <<state, consecutive, outcomes, halfOpenInFlight,
                         halfOpenSuccesses>>,
             cooledDown' \in BOOLEAN
      PROVE  BreakerTypeOK' /\ TripsInTime'
  BY <1>3 DEF BreakerTypeOK, TripsInTime
<1>4. ASSUME NEW r \in Requests, Call(r) \/ Reject(r) \/ Escape(r)
      PROVE  BreakerTypeOK' /\ TripsInTime'
  <2>1. UNCHANGED breaker
    BY <1>4 DEF Call, Reject, Escape
  <2> QED BY <2>1, <1>3 DEF breaker, BreakerTypeOK
<1>5. CASE CooldownPasses
  <2>1. cooledDown' \in BOOLEAN
    BY <1>5, Zenon DEF CooldownPasses
  <2> QED BY <1>3, <1>5, <2>1 DEF CooldownPasses
<1>6. CASE UNCHANGED vars
  BY <1>3, <1>6 DEF vars, breaker, BreakerTypeOK
<1> QED BY <1>1, <1>2, <1>4, <1>5, <1>6 DEF Next, RequestStep

LEMMA StepKeepsProbes == TypeOK /\ ProbesAreOut /\ [Next]_vars => ProbesAreOut'
<1> SUFFICES ASSUME TypeOK, ProbesAreOut, [Next]_vars PROVE ProbesAreOut'
  OBVIOUS
<1> USE DEF TypeOK, RequestTypeOK, ProbesAreOut
<1>1. ASSUME NEW r \in Requests, Call(r) \/ Reject(r) PROVE ProbesAreOut'
  BY <1>1 DEF Call, Reject, breaker
<1>2. ASSUME NEW r \in Requests, Admit(r) PROVE ProbesAreOut'
  BY <1>2 DEF Admit, HalfOpens
<1>3. ASSUME NEW r \in Requests, RecordRejection(r) PROVE ProbesAreOut'
  BY <1>3 DEF RecordRejection, RecordIgnoredFailure
<1>4. ASSUME NEW r \in Requests,
             Succeed(r) \/ FailRetriably(r) \/ FailForGood(r) \/ FailQuality(r)
      PROVE  ProbesAreOut'
  <2>1. probing' = IF state' = "half_open" THEN probing \ {r} ELSE {}
    BY <1>4 DEF Succeed, FailRetriably, FailForGood, FailQuality, Finish
  <2>2. \A q \in Requests \ {r} : at'[q] = at[q]
    BY <1>4 DEF Succeed, FailRetriably, FailForGood, FailQuality
  <2> QED BY <2>1, <2>2
<1>5. ASSUME NEW r \in Requests, Escape(r) PROVE ProbesAreOut'
  BY <1>5 DEF Escape, breaker
<1>6. CASE CooldownPasses \/ UNCHANGED vars
  BY <1>6 DEF CooldownPasses, vars, breaker
<1> QED BY <1>1, <1>2, <1>3, <1>4, <1>5, <1>6 DEF Next, RequestStep

\* The breaker's inductive invariant.
THEOREM BreakerInvariant == Spec => []IInv
<1>1. IInv /\ [Next]_vars => IInv'
  BY StepKeepsRequestTypes, StepKeepsBreaker, StepKeepsProbes DEF IInv, TypeOK
<1> QED BY <1>1, InitEstablishes, PTL DEF Spec

\* The counters of ropd_clients.py stay in their ranges, above all
\* half_open_in_flight: no release takes it below zero and no admission above
\* the number of probes, whatever the state in which an outcome is reported.
THEOREM BreakerTypes == Spec => []TypeOK
<1>1. IInv => TypeOK
  BY DEF IInv
<1> QED BY <1>1, BreakerInvariant, PTL

\* Enough errors in a row, or in a full window, never leave the breaker of
\* ropd_clients.py closed.
THEOREM BreakerTripsInTime == Spec => []TripsInTime
<1>1. IInv => TripsInTime
  BY DEF IInv
<1> QED BY <1>1, BreakerInvariant, PTL

-----------------------------------------------------------------------------
(* The slots of a half-open breaker *)

\* Probes are finite in number; one more or one less changes it by one.
LEMMA ProbeCount ==
  ASSUME TypeOK, NEW r \in Requests
  PROVE  /\ Cardinality(probing) \in Nat
         /\ Cardinality(probing \ {r}) \in Nat
         /\ Cardinality({r}) = 1
         /\ r \notin probing => Cardinality(probing \cup {r}) = Cardinality(probing) + 1
         /\ r \in probing => Cardinality(probing \ {r}) = Cardinality(probing) - 1
         /\ r \notin probing => Cardinality(probing \ {r}) = Cardinality(probing)
<1>1. IsFiniteSet(probing)
  BY BreakerAssumption, FS_Subset DEF TypeOK, RequestTypeOK
<1>2. IsFiniteSet(probing \ {r})
  BY <1>1, FS_Subset, probing \ {r} \subseteq probing
<1>3. Cardinality(probing \cup {r}) =
        IF r \in probing THEN Cardinality(probing) ELSE Cardinality(probing) + 1
  BY <1>1, FS_AddElement
<1>4. Cardinality(probing \ {r}) =
        IF r \in probing THEN Cardinality(probing) - 1 ELSE Cardinality(probing)
  BY <1>1, FS_RemoveElement
<1>5. Cardinality({r}) = 1
  BY FS_Singleton
<1> QED BY <1>1, <1>2, <1>3, <1>4, <1>5, FS_CardinalityType

\* A probe that is over gave its slot back, or leaked it.
LEMMA StepKeepsSlots == IInv /\ NoSlotIsLost /\ [Next]_vars => NoSlotIsLost'
<1> SUFFICES ASSUME IInv, NoSlotIsLost, [Next]_vars PROVE NoSlotIsLost'
  OBVIOUS
<1> USE BreakerAssumption DEF IInv, NoSlotIsLost
<1>0. /\ TypeOK /\ BreakerTypeOK
      /\ Probes \in Nat
      /\ halfOpenInFlight \in 0..Probes
      /\ leaked \in 0..Probes
      /\ OneLess = IF halfOpenInFlight > 0 THEN halfOpenInFlight - 1 ELSE 0
  BY DEF TypeOK, BreakerTypeOK, RequestTypeOK, OneLess
<1>1. ASSUME NEW r \in Requests,
             Succeed(r) \/ FailRetriably(r) \/ FailForGood(r) \/ FailQuality(r),
             state' = "half_open"
      PROVE  halfOpenInFlight' <= Cardinality(probing') + leaked'
  <2>1. state = "half_open" /\ halfOpenInFlight' = OneLess
    BY <1>0, <1>1, ReportSteps, ReportFacts
  <2>2. probing' = probing \ {r} /\ leaked' = leaked
    BY <1>1 DEF Succeed, FailRetriably, FailForGood, FailQuality, Finish
  <2>3. halfOpenInFlight <= Cardinality(probing) + leaked
    BY <2>1
  <2>4. /\ Cardinality(probing) \in Nat
        /\ Cardinality(probing \ {r}) \in Nat
        /\ \/ Cardinality(probing \ {r}) = Cardinality(probing) - 1
           \/ Cardinality(probing \ {r}) = Cardinality(probing)
    BY <1>0, ProbeCount
  <2>5. OneLess <= Cardinality(probing \ {r}) + leaked
    BY <1>0, <2>3, <2>4
  <2> QED BY <2>1, <2>2, <2>5
<1>2. ASSUME NEW r \in Requests, RecordRejection(r), state' = "half_open"
      PROVE  halfOpenInFlight' <= Cardinality(probing') + leaked'
  <2>1. state = "half_open" /\ halfOpenInFlight' = OneLess
    BY <1>0, <1>2, ReportSteps, ReportFacts
  <2>2. probing' = probing /\ leaked' = leaked
    BY <1>2 DEF RecordRejection
  <2>3. /\ halfOpenInFlight <= Cardinality(probing) + leaked
        /\ Cardinality(probing) \in Nat
    BY <1>0, <1>2, <2>1, ProbeCount
  <2>4. OneLess <= Cardinality(probing) + leaked
    BY <1>0, <2>3
  <2> QED BY <2>1, <2>2, <2>4
<1>3. ASSUME NEW r \in Requests, Admit(r), state' = "half_open"
      PROVE  halfOpenInFlight' <= Cardinality(probing') + leaked'
  <2>1. r \notin probing
    BY <1>3 DEF Admit, ProbesAreOut
  <2>2. \/ halfOpenInFlight' = 1 /\ probing' = {r} /\ leaked' = 0
        \/ /\ state = "half_open"
           /\ halfOpenInFlight' = halfOpenInFlight + 1
           /\ probing' = probing \cup {r}
           /\ leaked' = leaked
    BY <1>3 DEF Admit
  <2>3. CASE halfOpenInFlight' = 1 /\ probing' = {r} /\ leaked' = 0
    <3>1. Cardinality({r}) = 1
      BY <1>0, ProbeCount
    <3>2. Cardinality(probing') = Cardinality({r})
      BY <2>3
    <3> QED BY <2>3, <3>1, <3>2
  <2>4. CASE /\ state = "half_open"
             /\ halfOpenInFlight' = halfOpenInFlight + 1
             /\ probing' = probing \cup {r}
             /\ leaked' = leaked
    <3>1. /\ Cardinality(probing \cup {r}) = Cardinality(probing) + 1
          /\ Cardinality(probing) \in Nat
      BY <1>0, <2>1, ProbeCount
    <3>2. halfOpenInFlight <= Cardinality(probing) + leaked
      BY <2>4
    <3>3. Cardinality(probing') = Cardinality(probing) + 1
      BY <2>4, <3>1
    <3> QED BY <1>0, <2>4, <3>1, <3>2, <3>3
  <2> QED BY <2>2, <2>3, <2>4
<1>4. ASSUME NEW r \in Requests, Escape(r), state' = "half_open"
      PROVE  halfOpenInFlight' <= Cardinality(probing') + leaked'
  <2>1. /\ state = "half_open"
        /\ halfOpenInFlight' = halfOpenInFlight
        /\ probing' = probing \ {r}
        /\ leaked' = IF r \in probing THEN UpTo(Probes, leaked + 1) ELSE leaked
    BY <1>4 DEF Escape, breaker
  <2>2. halfOpenInFlight <= Cardinality(probing) + leaked
    BY <2>1
  <2>3. CASE r \notin probing
    BY <2>1, <2>2, <2>3, <1>0, ProbeCount
  <2>4. CASE r \in probing
    <3>1. /\ Cardinality(probing \ {r}) = Cardinality(probing) - 1
          /\ Cardinality(probing \ {r}) \in Nat
          /\ Cardinality(probing) \in Nat
      BY <1>0, <2>4, ProbeCount
    <3>2. halfOpenInFlight <= Cardinality(probing \ {r}) + UpTo(Probes, leaked + 1)
      BY <1>0, <2>2, <3>1 DEF UpTo
    <3> QED BY <2>1, <2>4, <3>2
  <2> QED BY <2>3, <2>4
<1>5. ASSUME NEW r \in Requests, Call(r) \/ Reject(r) PROVE NoSlotIsLost'
  BY <1>5 DEF Call, Reject, breaker
<1>6. CASE CooldownPasses \/ UNCHANGED vars
  BY <1>6 DEF CooldownPasses, vars, breaker
<1> QED BY <1>1, <1>2, <1>3, <1>4, <1>5, <1>6 DEF Next, RequestStep

\* A half-open breaker holds no slot for a probe that is over, but for those
\* whose exception no handler of _execute_with_retry caught.
THEOREM BreakerLosesNoSlot == Spec => []NoSlotIsLost
<1>1. Init => NoSlotIsLost
  BY DEF Init, NoSlotIsLost
<1> QED BY <1>1, StepKeepsSlots, BreakerInvariant, PTL DEF Spec
=============================================================================
