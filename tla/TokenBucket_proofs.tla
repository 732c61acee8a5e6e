------------------------- MODULE TokenBucket_proofs -------------------------
(***************************************************************************)
(* The rate that a token bucket enforces and the sleep it imposes, for any *)
(* number of threads, any limit and requests of any size.                  *)
(***************************************************************************)
EXTENDS TokenBucket, TLAPS

\* What requests that fit could take at once.
Credit == Greatest(0, Refilled)

\* Taken tokens and credit together stay within rate and burst: credit turns
\* into taken tokens, and a debt keeps it from growing.
CreditWithinRate == taken + Credit <= MaxTokens + (now - watchedAt)

BucketInv == TypeOK /\ CreditWithinRate /\ SleepIsBounded

\* What a thread needs and when it wakes are numbers.
LEMMA ThreadNumbers ==
  ASSUME TypeOK, NEW t \in Threads
  PROVE  need[t] \in Nat /\ wakeAt[t] \in Int
BY DEF TypeOK

LEMMA RefilledInRange ==
  ASSUME TypeOK
  PROVE  Refilled \in -MaxTokens..MaxTokens
BY TokenBucketAssumption DEF TypeOK, Refilled, Least

\* The credit may shrink, or grow by what the time that passes adds.
LEMMA StaysWithinRate ==
  ASSUME NEW max \in Int, NEW time \in Int, NEW begin \in Int, NEW took \in Int,
         NEW old \in Int, NEW new \in Int,
         took + old <= max + (time - begin)
  PROVE  /\ new <= old => took + new <= max + (time - begin)
         /\ new <= old + 1 => took + new <= max + ((time + 1) - begin)
OBVIOUS

LEMMA InitBucket == Init => BucketInv
BY TokenBucketAssumption
DEF Init, BucketInv, TypeOK, CreditWithinRate, SleepIsBounded, Credit, Refilled, Least, Greatest

LEMMA StepBucket == BucketInv /\ [Next]_vars => BucketInv'
<1> SUFFICES ASSUME BucketInv, [Next]_vars PROVE BucketInv'
    OBVIOUS
<1> USE TokenBucketAssumption DEF BucketInv
<1>0. Refilled \in -MaxTokens..MaxTokens
    BY RefilledInRange
<1>n. \A t \in Threads : need[t] \in Nat /\ wakeAt[t] \in Int
    BY ThreadNumbers
<1>m. /\ MaxTokens \in Int /\ now \in Int /\ watchedAt \in Int /\ taken \in Int
      /\ taken + Credit <= MaxTokens + (now - watchedAt)
    BY DEF TypeOK, CreditWithinRate
<1>1. ASSUME NEW t \in Threads, NEW n \in Sizes, Call(t, n) PROVE BucketInv'
    BY <1>1 DEF Call, TypeOK, CreditWithinRate, SleepIsBounded, Credit, Refilled, Least, Greatest
<1>2. ASSUME NEW t \in Threads, Take(t) PROVE BucketInv'
  <2>1. TypeOK'
      BY <1>0, <1>n, <1>2 DEF Take, Awake, TypeOK
  <2>2. Refilled' = Refilled - need[t]
      BY <1>0, <1>n, <1>2 DEF Take, Awake, TypeOK, Refilled, Least
  <2>3. CreditWithinRate'
      BY <1>0, <1>n, <1>2, <2>2 DEF Take, Awake, TypeOK, CreditWithinRate, Credit, Greatest
  <2>4. SleepIsBounded'
      BY <1>2 DEF Take, Awake, SleepIsBounded
  <2> QED BY <2>1, <2>3, <2>4
<1>3. ASSUME NEW t \in Threads, SleepAgain(t) PROVE BucketInv'
  <2>1. TypeOK'
      BY <1>0, <1>n, <1>3 DEF SleepAgain, Awake, TypeOK
  <2>2. Refilled' = Refilled
      BY <1>0, <1>n, <1>3 DEF SleepAgain, Awake, TypeOK, Refilled, Least
  <2>3. CreditWithinRate'
      BY <1>3, <2>2 DEF SleepAgain, Awake, CreditWithinRate, Credit, Greatest
  <2>4. SleepIsBounded'
      BY <1>0, <1>n, <1>3 DEF SleepAgain, Awake, TypeOK, SleepIsBounded
  <2> QED BY <2>1, <2>3, <2>4
<1>4. ASSUME NEW t \in Threads, TakeInAdvance(t) PROVE BucketInv'
  <2>1. Debt(need[t]) \in -MaxTokens..Refilled
      BY <1>0, <1>n, <1>4 DEF TakeInAdvance, Awake, Fits, TypeOK, Debt, Greatest
  <2>2. TypeOK'
      BY <1>0, <1>n, <1>4, <2>1 DEF TakeInAdvance, Awake, TypeOK, Greatest
  <2>3. Refilled' <= Refilled /\ Refilled' \in Int
      BY <1>0, <1>n, <1>4, <2>1 DEF TakeInAdvance, Awake, TypeOK, Refilled, Least
  <2>c. Credit \in Int /\ Credit' \in Int /\ Credit' <= Credit
      BY <1>0, <2>3 DEF Credit, Greatest
  <2>4. CreditWithinRate'
    <3>1. now' = now /\ watchedAt' = watchedAt /\ taken' = taken
        BY <1>4 DEF TakeInAdvance, Awake
    <3>2. taken + Credit' <= MaxTokens + (now - watchedAt)
        BY <1>m, <2>c, StaysWithinRate
    <3> QED BY <3>1, <3>2 DEF CreditWithinRate
  <2>5. SleepIsBounded'
      BY <1>0, <1>n, <1>4 DEF TakeInAdvance, Awake, TypeOK, SleepIsBounded, Greatest
  <2> QED BY <2>2, <2>4, <2>5
<1>5. ASSUME NEW t \in Threads, SleptOnce(t) PROVE BucketInv'
    BY <1>5 DEF SleptOnce, TypeOK, CreditWithinRate, SleepIsBounded, Credit, Refilled
<1>6. ASSUME Tick PROVE BucketInv'
  <2>1. TypeOK' /\ SleepIsBounded'
      BY <1>n, <1>6 DEF Tick, TypeOK, SleepIsBounded
  <2>2. Refilled' \in Int /\ Refilled' <= Refilled + 1
      BY <1>6 DEF Tick, TypeOK, Refilled, Least
  <2>c. Credit \in Int /\ Credit' \in Int /\ Credit' <= Credit + 1
      BY <1>0, <2>2 DEF Credit, Greatest
  <2>3. CreditWithinRate'
    <3>1. now' = now + 1 /\ watchedAt' = watchedAt /\ taken' = taken
        BY <1>6 DEF Tick
    <3>2. taken + Credit' <= MaxTokens + ((now + 1) - watchedAt)
        BY <1>m, <2>c, StaysWithinRate
    <3> QED BY <3>1, <3>2 DEF CreditWithinRate
  <2> QED BY <2>1, <2>3
<1>7. ASSUME Watch PROVE BucketInv'
    BY <1>0, <1>n, <1>7 DEF Watch, TypeOK, CreditWithinRate, SleepIsBounded, Credit, Refilled, Greatest
<1>8. ASSUME UNCHANGED vars PROVE BucketInv'
    BY <1>8 DEF vars, TypeOK, CreditWithinRate, SleepIsBounded, Credit, Refilled
<1> QED BY <1>1, <1>2, <1>3, <1>4, <1>5, <1>6, <1>7, <1>8 DEF Next, ThreadStep

LEMMA BucketProperties == BucketInv => TakenWithinRate
BY RefilledInRange, TokenBucketAssumption
DEF BucketInv, CreditWithinRate, TakenWithinRate, Credit, Greatest, TypeOK

\* The types, the credit and the sleeps are as stated whatever the threads
\* do: SyncTokenBucket.acquire under its lock.
THEOREM BucketInvariant == Spec => []BucketInv
BY InitBucket, StepBucket, PTL DEF Spec

\* Requests that fit never take more than a burst and the rate, over any interval.
THEOREM BucketKeepsRate == Spec => []TakenWithinRate
BY BucketInvariant, BucketProperties, PTL

\* acquire() never sleeps longer than a full bucket's debt and its own tokens.
THEOREM BucketBoundsSleep == Spec => []SleepIsBounded
<1>1. BucketInv => SleepIsBounded
    BY DEF BucketInv
<1> QED BY <1>1, BucketInvariant, PTL
=============================================================================
