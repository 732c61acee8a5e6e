----------------------- MODULE GroupEvaluation_proofs -----------------------
(***************************************************************************)
(* The rewards of a batch and the reward control, for any batch, teacher,  *)
(* verifier, chunk size and number of retries.                             *)
(***************************************************************************)
EXTENDS GroupEvaluation, FiniteSetTheorems, SequenceTheorems, TLAPS

Done == {"success", "fallback"}

Items == [source : {"teacher", "student"}, index : Nat, text : DOMAIN Points]

Controls ==
  [updateMask : Seq(BOOLEAN), totalGroups : Int, effectiveUids : Int,
   effectiveStudents : Int, excludedStudents : Int, excludedUids : Seq(Uids)]

EvaluationTypes ==
  /\ stage \in [Uids -> {"teacher", "rubric", "verify"} \cup Done]
  /\ teachers \in [Uids -> Seq(TeacherTexts)]
  /\ items \in [Uids -> Seq(Items)]
  /\ scores \in [Uids -> Seq(0..MaximumScore)]
  /\ attempts \in [Uids -> Nat]
  /\ control \in Controls

\* What the verifier scores is all answers of the group, each once,
ItemsAreShuffled ==
  \A u \in Uids : stage[u] \in {"verify", "success"} => items[u] \in SetToSeqs(ItemsOf(u))

\* from the first one on, each for its own text,
ScoresAreClaims ==
  \A u \in Uids :
    /\ stage[u] \in {"teacher", "rubric"} => scores[u] = <<>>
    /\ Len(scores[u]) <= Len(items[u])
    /\ \A i \in 1..Len(scores[u]) : scores[u][i] \in Claims(items[u][i].text)

\* until all have one.
SuccessIsScored ==
  \A u \in Uids : stage[u] = "success" => Len(scores[u]) = Len(items[u])

\* Groups are returned as a whole, and when they are done.
ReturnedIsDone ==
  /\ DOMAIN rewards = RolloutsOf(Returned)
  /\ \A u \in Returned : stage[u] \in Done

\* A reward is one of those that the verifier may claim for the rollout's own
\* text, whichever it is, or the zero of a group that fell back.
RewardsAreClaims ==
  \A b \in DOMAIN rewards :
    rewards[b] \in IF stage[Batch[b].uid] = "fallback" THEN {0} ELSE Claims(Batch[b].text)

EvaluationInv ==
  /\ EvaluationTypes /\ ItemsAreShuffled /\ ScoresAreClaims /\ SuccessIsScored
  /\ ReturnedIsDone /\ RewardsAreClaims /\ ControlAccountsForBatch

-----------------------------------------------------------------------------
(* The rollouts of a batch and their indices. *)

LEMMA BatchFacts ==
  /\ Positions = 1..Len(Batch) /\ Len(Batch) \in Nat
  /\ IsFiniteSet(Positions) /\ IsFiniteSet(Uids)
  /\ \A b \in Positions :
       /\ Batch[b].uid \in Uids
       /\ Batch[b].text \in DOMAIN Points
       /\ b \in RolloutsOf({Batch[b].uid})
  /\ TeacherTexts \subseteq DOMAIN Points
  /\ \A us : RolloutsOf(us) \subseteq Positions /\ IsFiniteSet(RolloutsOf(us))
  <1>1. Positions = 1..Len(Batch) /\ Len(Batch) \in Nat
    BY GroupEvaluationAssumption
  <1>2. IsFiniteSet(Positions)
    BY <1>1, FS_Interval
  <1>3. IsFiniteSet(Uids)
    <2> DEFINE f == [b \in Positions |-> Batch[b].uid]
    <2>1. f \in Surjection(Positions, Uids)
      BY DEF Surjection, Uids
    <2> HIDE DEF f
    <2> QED BY <2>1, <1>2, FS_Surjection
  <1>4. \A us : RolloutsOf(us) \in SUBSET Positions
    BY DEF RolloutsOf
  <1>5. \A us : IsFiniteSet(RolloutsOf(us))
    BY <1>2, <1>4, FS_Subset
  <1>6. DOMAIN Points = StudentTexts \cup TeacherTexts
    BY GroupEvaluationAssumption
  <1> QED BY <1>1, <1>2, <1>3, <1>4, <1>5, <1>6 DEF Uids, StudentTexts, RolloutsOf

\* No two rollouts of a group have the same index.
LEMMA IndicesDiffer ==
  ASSUME NEW a \in Positions, NEW b \in Positions,
         Batch[a].uid = Batch[b].uid, IndexOf(a) = IndexOf(b)
  PROVE  a = b
  <1> DEFINE R == RolloutsOf({Batch[b].uid})
             upTo(c) == {d \in R : d <= c}
  <1>1. IsFiniteSet(R) /\ R \subseteq Int /\ a \in R /\ b \in R /\ a \in Int /\ b \in Int
    BY BatchFacts
  <1>2. \A c : upTo(c) \in SUBSET R
    OBVIOUS
  <1>3. \A c : IsFiniteSet(upTo(c))
    BY <1>1, <1>2, FS_Subset
  <1>4. Cardinality(upTo(a)) = Cardinality(upTo(b))
    BY DEF IndexOf
  <1>5. a <= b => upTo(a) \in SUBSET upTo(b)
    BY <1>1
  <1>6. b <= a => upTo(b) \in SUBSET upTo(a)
    BY <1>1
  <1>7. a \in upTo(a) /\ b \in upTo(b)
    BY <1>1
  <1>8. upTo(a) = upTo(b)
    <2> HIDE DEF upTo, R
    <2>1. a <= b \/ b <= a
      BY <1>1
    <2> QED BY <2>1, <1>3, <1>4, <1>5, <1>6, FS_Subset
  <1>9. b \in upTo(a) /\ a \in upTo(b)
    BY <1>7, <1>8
  <1> QED BY <1>1, <1>9

LEMMA IndexType ==
  ASSUME NEW b \in Positions
  PROVE  IndexOf(b) \in Nat
  <1> DEFINE R == RolloutsOf({Batch[b].uid})
             U == {a \in R : a <= b}
  <1>1. IsFiniteSet(R) /\ U \in SUBSET R
    BY BatchFacts
  <1>2. Cardinality(U) \in Nat
    BY <1>1, FS_Subset, FS_CardinalityType
  <1> QED BY <1>2 DEF IndexOf

LEMMA ClaimsType ==
  ASSUME NEW t \in DOMAIN Points
  PROVE  Claims(t) \subseteq 0..MaximumScore
  BY GroupEvaluationAssumption DEF Claims

\* A shuffle is a sequence in which every element has a place.
LEMMA ShuffleFacts ==
  ASSUME NEW S, IsFiniteSet(S), NEW f \in SetToSeqs(S)
  PROVE  /\ f \in Seq(S)
         /\ \A x \in S : \E i \in DOMAIN f : f[i] = x
         /\ Len(f) = Cardinality(S)
  <1>1. Cardinality(S) \in Nat
    BY FS_CardinalityType
  <1>2. f \in Injection(1..Cardinality(S), S)
    BY DEF SetToSeqs, Injection, IsInjective
  <1>3. Cardinality(1..Cardinality(S)) = Cardinality(S)
    BY <1>1, FS_Interval
  <1>4. f \in Surjection(1..Cardinality(S), S)
    BY <1>2, <1>3, FS_Injection
  <1>5. f \in [1..Cardinality(S) -> S]
    BY <1>2 DEF Injection
  <1>6. f \in Seq(S) /\ Len(f) = Cardinality(S)
    BY <1>1, <1>5
  <1> QED BY <1>4, <1>5, <1>6 DEF Surjection

LEMMA ItemsFacts ==
  ASSUME NEW u \in Uids, teachers[u] \in Seq(TeacherTexts)
  PROVE  IsFiniteSet(ItemsOf(u)) /\ ItemsOf(u) \subseteq Items
  <1> DEFINE T == {[source |-> "teacher", index |-> i, text |-> teachers[u][i]] :
                   i \in DOMAIN teachers[u]}
             S == {[source |-> "student", index |-> IndexOf(b), text |-> Batch[b].text] :
                   b \in RolloutsOf({u})}
  <1>1. DOMAIN teachers[u] = 1..Len(teachers[u]) /\ Len(teachers[u]) \in Nat
    OBVIOUS
  <1>2. IsFiniteSet(DOMAIN teachers[u])
    <2>1. IsFiniteSet(1..Len(teachers[u]))
      BY <1>1, FS_Interval
    <2> QED BY <2>1, <1>1
  <1>3. IsFiniteSet(T)
    <2> DEFINE f == [i \in DOMAIN teachers[u] |->
                       [source |-> "teacher", index |-> i, text |-> teachers[u][i]]]
    <2>1. f \in Surjection(DOMAIN teachers[u], T)
      BY DEF Surjection
    <2> HIDE DEF f, T
    <2> QED BY <2>1, <1>2, FS_Surjection
  <1>4. IsFiniteSet(S)
    <2> DEFINE f == [b \in RolloutsOf({u}) |->
                       [source |-> "student", index |-> IndexOf(b), text |-> Batch[b].text]]
    <2>1. f \in Surjection(RolloutsOf({u}), S)
      BY DEF Surjection
    <2> HIDE DEF f, S
    <2> QED BY <2>1, BatchFacts, FS_Surjection
  <1>5. T \subseteq Items
    BY <1>1, BatchFacts DEF Items
  <1>6. S \subseteq Items
    <2>1. \A b \in RolloutsOf({u}) : IndexOf(b) \in Nat /\ Batch[b].text \in DOMAIN Points
      BY BatchFacts, IndexType
    <2>2. ASSUME NEW x \in S
          PROVE  x \in Items
      <3>1. PICK b \in RolloutsOf({u}) :
              x = [source |-> "student", index |-> IndexOf(b), text |-> Batch[b].text]
        OBVIOUS
      <3>2. IndexOf(b) \in Nat /\ Batch[b].text \in DOMAIN Points
        BY <2>1, <3>1
      <3> QED BY <3>1, <3>2 DEF Items
    <2> HIDE DEF S
    <2> QED BY <2>2
  <1>7. ItemsOf(u) = T \cup S
    BY DEF ItemsOf
  <1> HIDE DEF T, S
  <1> QED BY <1>3, <1>4, <1>5, <1>6, <1>7, FS_Union

LEMMA StudentItem ==
  ASSUME NEW u, NEW x \in ItemsOf(u), x.source = "student"
  PROVE  \E b \in RolloutsOf({u}) :
           x = [source |-> "student", index |-> IndexOf(b), text |-> Batch[b].text]
  <1>1. x \notin {[source |-> "teacher", index |-> i, text |-> teachers[u][i]] :
                  i \in DOMAIN teachers[u]}
    OBVIOUS
  <1>2. x \in {[source |-> "student", index |-> IndexOf(b), text |-> Batch[b].text] :
               b \in RolloutsOf({u})}
    BY <1>1 DEF ItemsOf
  <1> QED BY <1>2

\* Through the shuffle, the i-th score that is put back is one for its text.
LEMMA ScoreIsForText ==
  ASSUME EvaluationInv, NEW b \in Positions, stage[Batch[b].uid] = "success"
  PROVE  StudentScore(Batch[b].uid, IndexOf(b)) \in Claims(Batch[b].text)
  <1> DEFINE u == Batch[b].uid
             mine(j) == items[u][j].source = "student" /\ items[u][j].index = IndexOf(b)
             at == CHOOSE j \in DOMAIN items[u] : mine(j)
  <1>1. u \in Uids /\ b \in RolloutsOf({u})
    BY BatchFacts
  <1>2. teachers[u] \in Seq(TeacherTexts) /\ items[u] \in Seq(Items)
    BY <1>1 DEF EvaluationInv, EvaluationTypes
  <1>3. IsFiniteSet(ItemsOf(u)) /\ items[u] \in SetToSeqs(ItemsOf(u))
    BY <1>1, <1>2, ItemsFacts DEF EvaluationInv, ItemsAreShuffled
  <1>4. [source |-> "student", index |-> IndexOf(b), text |-> Batch[b].text] \in ItemsOf(u)
    BY <1>1 DEF ItemsOf
  <1>5. items[u] \in Seq(ItemsOf(u)) /\ \E j \in DOMAIN items[u] :
          items[u][j] = [source |-> "student", index |-> IndexOf(b), text |-> Batch[b].text]
    BY <1>3, <1>4, ShuffleFacts
  <1>6. \E j \in DOMAIN items[u] : mine(j)
    BY <1>5
  <1>7. at \in DOMAIN items[u] /\ mine(at)
    BY <1>6
  <1>8. StudentScore(u, IndexOf(b)) = scores[u][at]
    BY DEF StudentScore
  <1> HIDE DEF at
  <1>9. items[u][at] \in ItemsOf(u)
    BY <1>5, <1>7
  <1>10. PICK a \in RolloutsOf({u}) :
          items[u][at] = [source |-> "student", index |-> IndexOf(a), text |-> Batch[a].text]
    BY <1>7, <1>9, StudentItem
  <1>11. a = b
    <2>1. a \in Positions /\ Batch[a].uid = u /\ IndexOf(a) = IndexOf(b)
      BY <1>7, <1>10 DEF RolloutsOf
    <2> QED BY <2>1, IndicesDiffer
  <1>12. at \in 1..Len(scores[u])
    <2>1. Len(scores[u]) = Len(items[u])
      BY <1>1 DEF EvaluationInv, SuccessIsScored
    <2> QED BY <2>1, <1>2, <1>7
  <1>13. scores[u][at] \in Claims(items[u][at].text)
    BY <1>1, <1>12 DEF EvaluationInv, ScoresAreClaims
  <1> QED BY <1>8, <1>10, <1>11, <1>13

-----------------------------------------------------------------------------
(* What the groups do before they are returned. *)

\* A group that is not done was not returned.
LEMMA UnreturnedMoves ==
  ASSUME EvaluationInv, NEW u \in Uids, stage[u] \notin Done,
         NEW to, stage' = [stage EXCEPT ![u] = to], UNCHANGED <<rewards, control>>
  PROVE  (ReturnedIsDone /\ RewardsAreClaims /\ ControlAccountsForBatch)'
  <1>1. u \notin Returned /\ Returned' = Returned /\ Returned \subseteq Uids
    <2>1. DOMAIN rewards \subseteq Positions
      BY BatchFacts DEF EvaluationInv, ReturnedIsDone
    <2> QED BY <2>1, BatchFacts DEF EvaluationInv, ReturnedIsDone, Returned
  <1>2. stage \in [Uids -> {"teacher", "rubric", "verify"} \cup Done]
    BY DEF EvaluationInv, EvaluationTypes
  <1>3. \A v \in Returned : stage'[v] = stage[v]
    BY <1>1, <1>2
  <1>4. \A b \in DOMAIN rewards : Batch[b].uid \in Returned
    BY DEF Returned
  <1>5. ReturnedIsDone'
    BY <1>1, <1>3 DEF EvaluationInv, ReturnedIsDone, RolloutsOf
  <1>6. RewardsAreClaims'
    BY <1>3, <1>4 DEF EvaluationInv, RewardsAreClaims
  <1>7. {v \in Returned : stage[v] = "fallback"}' = {v \in Returned : stage[v] = "fallback"}
    BY <1>1, <1>3
  <1>8. ControlAccountsForBatch'
    BY <1>1, <1>7 DEF EvaluationInv, ControlAccountsForBatch, RolloutsOf
  <1> QED BY <1>5, <1>6, <1>8

\* What was said of the other groups stays true, and what is left is to say it of u.
LEMMA OtherGroupsStay ==
  ASSUME EvaluationInv, NEW u \in Uids, EvaluationTypes',
         \A v \in Uids \ {u} :
           /\ stage'[v] = stage[v] /\ teachers'[v] = teachers[v]
           /\ items'[v] = items[v] /\ scores'[v] = scores[v],
         stage'[u] \in {"verify", "success"} => items'[u] \in SetToSeqs(ItemsOf(u)'),
         stage'[u] \in {"teacher", "rubric"} => scores'[u] = <<>>,
         Len(scores'[u]) <= Len(items'[u]),
         \A i \in 1..Len(scores'[u]) : scores'[u][i] \in Claims(items'[u][i].text),
         stage'[u] = "success" => Len(scores'[u]) = Len(items'[u])
  PROVE  (ItemsAreShuffled /\ ScoresAreClaims /\ SuccessIsScored)'
  <1>1. \A v \in Uids \ {u} : ItemsOf(v)' = ItemsOf(v)
    BY DEF ItemsOf
  <1>2. ItemsAreShuffled'
    BY <1>1 DEF EvaluationInv, ItemsAreShuffled
  <1>3. ScoresAreClaims'
    BY DEF EvaluationInv, ScoresAreClaims
  <1>4. SuccessIsScored'
    BY DEF EvaluationInv, SuccessIsScored
  <1> QED BY <1>2, <1>3, <1>4

LEMMA TeacherStep ==
  ASSUME EvaluationInv, NEW u \in Uids, TeacherAnswers(u)
  PROVE  EvaluationInv'
  <1> USE DEF TeacherAnswers, Moves
  <1>1. EvaluationTypes
    BY DEF EvaluationInv
  <1>0. PICK n \in 1..TeacherAnswerCount :
          \E answers \in [1..n -> TeacherTexts] :
            teachers' = [teachers EXCEPT ![u] = answers]
    OBVIOUS
  <1>2. PICK answers \in [1..n -> TeacherTexts] :
          teachers' = [teachers EXCEPT ![u] = answers]
    BY <1>0
  <1>3. answers \in Seq(TeacherTexts)
    BY <1>2, GroupEvaluationAssumption
  <1>4. EvaluationTypes'
    BY <1>1, <1>2, <1>3 DEF EvaluationTypes
  <1>5. scores'[u] = <<>> /\ stage'[u] = "rubric"
    BY <1>1 DEF EvaluationInv, ScoresAreClaims, EvaluationTypes
  <1>6. items[u] \in Seq(Items)
    BY <1>1 DEF EvaluationTypes
  <1>7. Len(scores'[u]) <= Len(items'[u]) /\ 1..Len(scores'[u]) = {}
    BY <1>5, <1>6
  <1>8. (ItemsAreShuffled /\ ScoresAreClaims /\ SuccessIsScored)'
    <2>1. \A v \in Uids \ {u} : stage'[v] = stage[v] /\ teachers'[v] = teachers[v]
      BY <1>1, <1>2 DEF EvaluationTypes
    <2> QED BY <1>4, <1>5, <1>7, <2>1, OtherGroupsStay
  <1>9. (ReturnedIsDone /\ RewardsAreClaims /\ ControlAccountsForBatch)'
    BY UnreturnedMoves DEF Done
  <1> QED BY <1>4, <1>8, <1>9 DEF EvaluationInv

LEMMA RubricStep ==
  ASSUME EvaluationInv, NEW u \in Uids, RubricIsMade(u)
  PROVE  EvaluationInv'
  <1> USE DEF RubricIsMade, Moves
  <1>1. EvaluationTypes
    BY DEF EvaluationInv
  <1>2. PICK order \in SetToSeqs(ItemsOf(u)) : items' = [items EXCEPT ![u] = order]
    OBVIOUS
  <1>3. IsFiniteSet(ItemsOf(u)) /\ ItemsOf(u) \subseteq Items
    BY <1>1, ItemsFacts DEF EvaluationTypes
  <1>4. order \in Seq(Items)
    BY <1>3, ShuffleFacts
  <1>5. EvaluationTypes'
    BY <1>1, <1>2, <1>4 DEF EvaluationTypes
  <1>6. scores'[u] = <<>> /\ stage'[u] = "verify" /\ items'[u] = order
    BY <1>1, <1>2 DEF EvaluationInv, ScoresAreClaims, EvaluationTypes
  <1>7. Len(scores'[u]) <= Len(items'[u]) /\ 1..Len(scores'[u]) = {}
    BY <1>4, <1>6
  <1>8. ItemsOf(u)' = ItemsOf(u)
    BY DEF ItemsOf
  <1>9. (ItemsAreShuffled /\ ScoresAreClaims /\ SuccessIsScored)'
    <2>1. \A v \in Uids \ {u} : stage'[v] = stage[v] /\ items'[v] = items[v]
      BY <1>1, <1>2 DEF EvaluationTypes
    <2> QED BY <1>5, <1>6, <1>7, <1>8, <2>1, OtherGroupsStay
  <1>10. (ReturnedIsDone /\ RewardsAreClaims /\ ControlAccountsForBatch)'
    BY UnreturnedMoves DEF Done
  <1> QED BY <1>5, <1>9, <1>10 DEF EvaluationInv

\* A step to the fallback, or back to the verifier, without a new score.
LEMMA NothingIsScored ==
  ASSUME EvaluationInv, NEW u \in Uids, stage[u] \notin Done,
         NEW to \in {"verify", "fallback"}, to = "verify" => stage[u] = "verify",
         stage' = [stage EXCEPT ![u] = to],
         NEW n \in Nat, attempts' = [attempts EXCEPT ![u] = n],
         UNCHANGED <<teachers, items, scores, rewards, control>>
  PROVE  EvaluationInv'
  <1>1. EvaluationTypes
    BY DEF EvaluationInv
  <1>2. EvaluationTypes'
    BY <1>1 DEF EvaluationTypes, Done
  <1>3. stage'[u] = to /\ \A v \in Uids \ {u} : stage'[v] = stage[v]
    BY <1>1 DEF EvaluationTypes
  <1>4. ItemsOf(u)' = ItemsOf(u)
    BY DEF ItemsOf
  <1>5. stage'[u] \in {"verify", "success"} => items'[u] \in SetToSeqs(ItemsOf(u)')
    BY <1>3, <1>4 DEF EvaluationInv, ItemsAreShuffled
  <1>6. /\ Len(scores'[u]) <= Len(items'[u])
        /\ \A i \in 1..Len(scores'[u]) : scores'[u][i] \in Claims(items'[u][i].text)
    BY DEF EvaluationInv, ScoresAreClaims
  <1>7. (ItemsAreShuffled /\ ScoresAreClaims /\ SuccessIsScored)'
    BY <1>2, <1>3, <1>5, <1>6, OtherGroupsStay
  <1>8. (ReturnedIsDone /\ RewardsAreClaims /\ ControlAccountsForBatch)'
    BY UnreturnedMoves
  <1> QED BY <1>2, <1>7, <1>8 DEF EvaluationInv

LEMMA FailStep ==
  ASSUME EvaluationInv, NEW u \in Uids, GroupFails(u)
  PROVE  EvaluationInv'
  <1>1. attempts[u] \in Nat /\ attempts' = [attempts EXCEPT ![u] = attempts[u]]
    BY DEF GroupFails, EvaluationInv, EvaluationTypes
  <1>2. /\ stage[u] \notin Done /\ stage' = [stage EXCEPT ![u] = "fallback"]
        /\ UNCHANGED <<teachers, items, scores, rewards, control>>
    BY DEF GroupFails, Moves, Done
  <1> QED BY <1>1, <1>2, NothingIsScored

LEMMA ErrStep ==
  ASSUME EvaluationInv, NEW u \in Uids, VerifierErrs(u)
  PROVE  EvaluationInv'
  <1>1. attempts[u] + 1 \in Nat /\ attempts' = [attempts EXCEPT ![u] = attempts[u] + 1]
    BY DEF VerifierErrs, EvaluationInv, EvaluationTypes
  <1>2. PICK to \in {"verify", "fallback"} : Moves(u, "verify", to)
    BY DEF VerifierErrs
  <1>3. /\ stage[u] = "verify" /\ stage[u] \notin Done /\ stage' = [stage EXCEPT ![u] = to]
        /\ UNCHANGED <<teachers, items, scores, rewards, control>>
    BY <1>2 DEF VerifierErrs, Moves, Done
  <1> QED BY <1>1, <1>3, NothingIsScored

\* The next chunk is the part of the answers behind those that have a score.
LEMMA ChunkFacts ==
  ASSUME EvaluationInv, NEW u \in Uids
  PROVE  /\ Chunk(u) \in Seq(Items)
         /\ Len(scores[u]) + Len(Chunk(u)) <= Len(items[u])
         /\ \A i \in 1..Len(Chunk(u)) : Chunk(u)[i] = items[u][Len(scores[u]) + i]
  <1> DEFINE d == Len(scores[u])
             l == Len(items[u])
             size == IF ChunkSize = 0 THEN l ELSE ChunkSize
             last == Min({d + size, l})
  <1>1. d \in Nat /\ l \in Nat /\ d <= l /\ size \in Nat /\ items[u] \in Seq(Items)
    BY GroupEvaluationAssumption DEF EvaluationInv, EvaluationTypes, ScoresAreClaims
  <1>2. last \in {d + size, l} /\ last <= d + size /\ last <= l
    <2>1. \E m \in {d + size, l} : \A k \in {d + size, l} : m <= k
      BY <1>1
    <2> HIDE DEF size
    <2> QED BY <2>1 DEF Min
  <1>3. Chunk(u) = SubSeq(items[u], d + 1, last)
    BY DEF Chunk
  <1>4. last \in Nat /\ d <= last /\ last <= l
    BY <1>1, <1>2
  <1> HIDE DEF d, l, last
  <1>5. last <= Len(items[u])
    BY <1>4 DEF l
  <1>6. /\ SubSeq(items[u], d + 1, last) \in Seq(Items)
        /\ Len(SubSeq(items[u], d + 1, last)) = last - d
        /\ \A i \in 1..(last - d) : SubSeq(items[u], d + 1, last)[i] = items[u][d + i]
    <2>1. d + 1 \in 1..(last + 1) /\ last \in d..Len(items[u])
      BY <1>1, <1>4, <1>5
    <2> QED BY <1>1, <1>4, <1>5, <2>1, SubSeqProperties
  <1>7. /\ Chunk(u) \in Seq(Items)
        /\ d + Len(Chunk(u)) <= l
        /\ \A i \in 1..Len(Chunk(u)) : Chunk(u)[i] = items[u][d + i]
    BY <1>1, <1>3, <1>4, <1>6
  <1> QED BY <1>7 DEF d, l

LEMMA ReplyStep ==
  ASSUME EvaluationInv, NEW u \in Uids, VerifierReplies(u)
  PROVE  EvaluationInv'
  <1>1. EvaluationTypes
    BY DEF EvaluationInv
  <1>2. /\ attempts' = [attempts EXCEPT ![u] = 0]
        /\ UNCHANGED <<teachers, items, rewards, control>>
        /\ stage[u] = "verify" /\ stage[u] \notin Done
    BY DEF VerifierReplies, Moves, Done
  <1>3. PICK reply \in Replies(Chunk(u)) :
          IF InOrder(reply)
          THEN /\ scores' = [scores EXCEPT ![u] = @ \o [i \in DOMAIN reply |-> reply[i].score]]
               /\ Moves(u, "verify",
                        IF Len(scores'[u]) = Len(items[u]) THEN "success" ELSE "verify")
          ELSE Moves(u, "verify", "fallback") /\ UNCHANGED scores
    BY DEF VerifierReplies
  <1>4. CASE ~InOrder(reply)
    <2>1. stage' = [stage EXCEPT ![u] = "fallback"] /\ UNCHANGED scores
      BY <1>3, <1>4 DEF Moves
    <2> QED BY <1>2, <2>1, NothingIsScored
  <1>5. CASE InOrder(reply)
    <2> DEFINE chunk == Chunk(u)
               new == [i \in DOMAIN reply |-> reply[i].score]
               d == Len(scores[u])
    <2>1. /\ chunk \in Seq(Items) /\ d \in Nat /\ Len(items[u]) \in Nat
          /\ d + Len(chunk) <= Len(items[u])
          /\ \A i \in 1..Len(chunk) : chunk[i] = items[u][d + i]
      BY <1>1, ChunkFacts DEF EvaluationTypes
    <2>2. DOMAIN reply = 1..Len(chunk) /\ DOMAIN chunk = 1..Len(chunk) /\ Len(chunk) \in Nat
      BY <2>1 DEF Replies
    <2>3. \A i \in 1..Len(chunk) :
            /\ reply[i].score \in 0..MaximumScore
            /\ reply[i].score \in Claims(chunk[i].text)
      BY <1>5, <2>2 DEF Replies, InOrder
    <2> HIDE DEF chunk
    <2>4. new \in Seq(0..MaximumScore) /\ Len(new) = Len(chunk)
      BY <2>2, <2>3
    <2>5. \A i \in 1..Len(chunk) : new[i] = reply[i].score
      BY <2>2
    <2> HIDE DEF new
    <2>6. scores' = [scores EXCEPT ![u] = scores[u] \o new] /\ scores[u] \in Seq(0..MaximumScore)
      BY <1>1, <1>3, <1>5 DEF EvaluationTypes, new
    <2>7. /\ scores'[u] = scores[u] \o new
          /\ \A v \in Uids \ {u} : scores'[v] = scores[v]
      BY <1>1, <2>6 DEF EvaluationTypes
    <2>8. /\ scores'[u] \in Seq(0..MaximumScore)
          /\ Len(scores'[u]) = d + Len(chunk)
          /\ \A i \in 1..Len(scores'[u]) :
               scores'[u][i] = IF i <= d THEN scores[u][i] ELSE new[i - d]
      <3>1. /\ scores[u] \o new \in Seq(0..MaximumScore)
            /\ Len(scores[u] \o new) = d + Len(new)
            /\ \A i \in 1..(d + Len(new)) :
                 (scores[u] \o new)[i] = IF i <= d THEN scores[u][i] ELSE new[i - d]
        BY <2>4, <2>6, ConcatProperties
      <3> QED BY <2>4, <2>7, <3>1
    <2>9. PICK to \in {"verify", "success"} :
            /\ stage' = [stage EXCEPT ![u] = to]
            /\ to = "success" => Len(scores'[u]) = Len(items[u])
      BY <1>3, <1>5 DEF Moves
    <2>10. EvaluationTypes'
      BY <1>1, <1>2, <2>6, <2>8, <2>7, <2>9 DEF EvaluationTypes, Done
    <2>11. stage'[u] = to /\ \A v \in Uids \ {u} : stage'[v] = stage[v]
      BY <1>1, <2>9 DEF EvaluationTypes
    <2>12. \A i \in 1..Len(scores'[u]) : scores'[u][i] \in Claims(items'[u][i].text)
      <3> TAKE i \in 1..Len(scores'[u])
      <3>1. CASE i <= d
        <4>1. i \in 1..Len(scores[u])
          BY <2>1, <3>1
        <4> QED BY <1>2, <2>8, <3>1, <4>1 DEF EvaluationInv, ScoresAreClaims
      <3>2. CASE ~(i <= d)
        <4>1. i - d \in 1..Len(chunk) /\ d + (i - d) = i
          BY <2>1, <2>2, <2>8, <3>2
        <4>2. scores'[u][i] \in Claims(chunk[i - d].text)
          BY <2>3, <2>5, <2>8, <3>2, <4>1
        <4>3. chunk[i - d] = items[u][i]
          BY <2>1, <4>1
        <4> QED BY <1>2, <4>2, <4>3
      <3> QED BY <3>1, <3>2
    <2>13. stage'[u] \in {"verify", "success"} => items'[u] \in SetToSeqs(ItemsOf(u)')
      BY <1>2 DEF EvaluationInv, ItemsAreShuffled, ItemsOf
    <2>14. (ItemsAreShuffled /\ ScoresAreClaims /\ SuccessIsScored)'
      BY <1>2, <2>1, <2>7, <2>8, <2>9, <2>10, <2>11, <2>12, <2>13, OtherGroupsStay
    <2>15. (ReturnedIsDone /\ RewardsAreClaims /\ ControlAccountsForBatch)'
      BY <1>2, <2>9, UnreturnedMoves
    <2> QED BY <2>10, <2>14, <2>15 DEF EvaluationInv
  <1> QED BY <1>4, <1>5

-----------------------------------------------------------------------------
(* The reward control. *)

FellBack(us) == {u \in us : stage[u] = "fallback"}

\* The control c accounts for the groups us.
AccountsFor(c, us) ==
  /\ Len(c.updateMask) = Cardinality(RolloutsOf(us))
  /\ c.totalGroups = Cardinality(us)
  /\ c.effectiveUids = Cardinality(us \ FellBack(us))
  /\ c.effectiveStudents = Cardinality(RolloutsOf(us \ FellBack(us)))
  /\ c.excludedStudents = Cardinality(RolloutsOf(FellBack(us)))
  /\ ToSet(c.excludedUids) = FellBack(us)
  /\ Len(c.excludedUids) = Cardinality(FellBack(us))

LEMMA DisjointSum ==
  ASSUME NEW S, NEW T, IsFiniteSet(S), IsFiniteSet(T), S \cap T = {}
  PROVE  /\ Cardinality(S \cup T) = Cardinality(S) + Cardinality(T)
         /\ Cardinality(S) \in Nat /\ Cardinality(T) \in Nat
  <1>1. Cardinality(S) \in Nat /\ Cardinality(T) \in Nat
    BY FS_CardinalityType
  <1>2. Cardinality(S \cap T) = 0
    BY FS_EmptySet
  <1>3. Cardinality(S \cup T) = Cardinality(S) + Cardinality(T) - Cardinality(S \cap T)
    BY FS_Union
  <1> QED BY <1>1, <1>2, <1>3

LEMMA FiniteUids ==
  ASSUME NEW us \in SUBSET Uids
  PROVE  IsFiniteSet(us)
  BY BatchFacts, FS_Subset

LEMMA GroupsAddUp ==
  ASSUME NEW us \in SUBSET Uids, NEW vs \in SUBSET Uids, us \cap vs = {}
  PROVE  Cardinality(us \cup vs) = Cardinality(us) + Cardinality(vs)
  BY FiniteUids, DisjointSum

\* The rollouts of different groups are different.
LEMMA RolloutsAddUp ==
  ASSUME NEW us \in SUBSET Uids, NEW vs \in SUBSET Uids, us \cap vs = {}
  PROVE  /\ RolloutsOf(us \cup vs) = RolloutsOf(us) \cup RolloutsOf(vs)
         /\ Cardinality(RolloutsOf(us \cup vs)) =
              Cardinality(RolloutsOf(us)) + Cardinality(RolloutsOf(vs))
         /\ Cardinality(RolloutsOf(us)) \in Nat /\ Cardinality(RolloutsOf(vs)) \in Nat
  <1>1. /\ RolloutsOf(us \cup vs) = RolloutsOf(us) \cup RolloutsOf(vs)
        /\ RolloutsOf(us) \cap RolloutsOf(vs) = {}
    BY DEF RolloutsOf
  <1> QED BY <1>1, BatchFacts, DisjointSum

LEMMA SetToSeqFacts ==
  ASSUME NEW S, IsFiniteSet(S)
  PROVE  /\ SetToSeq(S) \in Seq(S) /\ ToSet(SetToSeq(S)) = S
         /\ Len(SetToSeq(S)) = Cardinality(S)
  <1>1. \E f \in [1..Cardinality(S) -> S] : IsInjective(f)
    BY FS_CardinalityType DEF ExistsBijection, Bijection, Injection
  <1>2. SetToSeq(S) \in [1..Cardinality(S) -> S] /\ IsInjective(SetToSeq(S))
    BY <1>1 DEF SetToSeq
  <1>3. SetToSeq(S) \in SetToSeqs(S)
    BY <1>2 DEF SetToSeqs, IsInjective
  <1> DEFINE f == SetToSeq(S)
  <1> HIDE DEF f
  <1>4. f \in Seq(S) /\ (\A x \in S : \E i \in DOMAIN f : f[i] = x) /\ Len(f) = Cardinality(S)
    BY <1>3, ShuffleFacts DEF f
  <1>5. ToSet(f) = S
    BY <1>4 DEF ToSet
  <1> QED BY <1>4, <1>5 DEF f

LEMMA ToSetConcat ==
  ASSUME NEW A, NEW s \in Seq(A), NEW t \in Seq(A)
  PROVE  /\ s \o t \in Seq(A)
         /\ ToSet(s \o t) = ToSet(s) \cup ToSet(t)
         /\ Len(s \o t) = Len(s) + Len(t)
  <1>1. /\ s \o t \in Seq(A) /\ Len(s \o t) = Len(s) + Len(t)
        /\ \A i \in 1..(Len(s) + Len(t)) :
             (s \o t)[i] = IF i <= Len(s) THEN s[i] ELSE t[i - Len(s)]
    BY ConcatProperties
  <1>2. ToSet(s \o t) \subseteq ToSet(s) \cup ToSet(t)
    <2>1. ASSUME NEW i \in DOMAIN (s \o t)
          PROVE  (s \o t)[i] \in ToSet(s) \cup ToSet(t)
      <3>1. i \in 1..(Len(s) + Len(t))
        BY <1>1
      <3>2. CASE i <= Len(s)
        BY <1>1, <3>1, <3>2 DEF ToSet
      <3>3. CASE ~(i <= Len(s))
        <4>1. i - Len(s) \in DOMAIN t
          BY <3>1, <3>3
        <4> QED BY <1>1, <3>1, <3>3, <4>1 DEF ToSet
      <3> QED BY <3>2, <3>3
    <2> QED BY <2>1 DEF ToSet
  <1>3. ToSet(s) \subseteq ToSet(s \o t)
    <2>1. \A i \in DOMAIN s : i \in DOMAIN (s \o t) /\ (s \o t)[i] = s[i]
      BY <1>1
    <2> QED BY <2>1 DEF ToSet
  <1>4. ToSet(t) \subseteq ToSet(s \o t)
    <2>1. \A i \in DOMAIN t : Len(s) + i \in DOMAIN (s \o t) /\ (s \o t)[Len(s) + i] = t[i]
      BY <1>1
    <2> QED BY <2>1 DEF ToSet
  <1> QED BY <1>1, <1>2, <1>3, <1>4

\* What one call builds accounts for the groups it judged,
LEMMA RewardControlAccounts ==
  ASSUME NEW us \in SUBSET Uids
  PROVE  RewardControl(us) \in Controls /\ AccountsFor(RewardControl(us), us)
  <1> DEFINE f == FellBack(us)
             c == RewardControl(us)
             n == Cardinality(RolloutsOf(us))
             e == Cardinality(RolloutsOf(us \ f))
  <1>1. f \in SUBSET Uids /\ us \ f \in SUBSET Uids /\ us = (us \ f) \cup f /\ (us \ f) \cap f = {}
    BY DEF FellBack
  <1>2. IsFiniteSet(f) /\ IsFiniteSet(us \ f)
    BY <1>1, FiniteUids
  <1> HIDE DEF f
  <1>3. /\ Cardinality(us) = Cardinality(us \ f) + Cardinality(f)
        /\ Cardinality(us \ f) \in Nat /\ Cardinality(f) \in Nat
    BY <1>1, <1>2, DisjointSum
  <1>4. n = e + Cardinality(RolloutsOf(f)) /\ e \in Nat /\ Cardinality(RolloutsOf(f)) \in Nat
    BY <1>1, RolloutsAddUp
  <1>5. /\ SetToSeq(f) \in Seq(f) /\ ToSet(SetToSeq(f)) = f
        /\ Len(SetToSeq(f)) = Cardinality(f)
    BY <1>2, SetToSeqFacts
  <1>6. SetToSeq(f) \in Seq(Uids)
    BY <1>1, <1>5
  <1>7. c = [updateMask |-> [i \in 1..n |-> TRUE],
             totalGroups |-> Cardinality(us),
             effectiveUids |-> Cardinality(us) - Cardinality(f),
             effectiveStudents |-> e,
             excludedStudents |-> n - e,
             excludedUids |-> SetToSeq(f)]
    BY DEF RewardControl, f, FellBack
  <1> HIDE DEF n, e, c
  <1>8. [i \in 1..n |-> TRUE] \in Seq(BOOLEAN) /\ Len([i \in 1..n |-> TRUE]) = n
    <2>1. n \in Nat
      BY <1>4
    <2>2. [i \in 1..n |-> TRUE] \in [1..n -> BOOLEAN]
      OBVIOUS
    <2> DEFINE mask == [i \in 1..n |-> TRUE]
    <2> HIDE DEF mask
    <2>3. mask \in [1..n -> BOOLEAN]
      BY <2>2 DEF mask
    <2>4. mask \in Seq(BOOLEAN) /\ Len(mask) = n
      BY <2>1, <2>3
    <2> QED BY <2>4 DEF mask
  <1>9. c \in Controls
    BY <1>3, <1>4, <1>6, <1>7, <1>8 DEF Controls
  <1>10. AccountsFor(c, us)
    <2>1. n - e = Cardinality(RolloutsOf(f)) /\ Cardinality(us) - Cardinality(f) = Cardinality(us \ f)
      BY <1>3, <1>4
    <2> QED BY <1>5, <1>7, <1>8, <2>1 DEF AccountsFor, f, n, e
  <1> QED BY <1>9, <1>10 DEF c

\* and what is merged accounts for the groups of both.
LEMMA MergeAccounts ==
  ASSUME NEW us \in SUBSET Uids, NEW vs \in SUBSET Uids, us \cap vs = {},
         NEW c \in Controls, AccountsFor(c, us), NEW d \in Controls, AccountsFor(d, vs)
  PROVE  MergeControl(c, d) \in Controls /\ AccountsFor(MergeControl(c, d), us \cup vs)
  <1> DEFINE both == us \cup vs
             m == MergeControl(c, d)
  <1>1. /\ FellBack(us) \in SUBSET Uids /\ FellBack(vs) \in SUBSET Uids
        /\ FellBack(us) \cap FellBack(vs) = {}
        /\ FellBack(both) = FellBack(us) \cup FellBack(vs)
    BY DEF FellBack
  <1>2. /\ us \ FellBack(us) \in SUBSET Uids /\ vs \ FellBack(vs) \in SUBSET Uids
        /\ (us \ FellBack(us)) \cap (vs \ FellBack(vs)) = {}
        /\ both \ FellBack(both) = (us \ FellBack(us)) \cup (vs \ FellBack(vs))
    BY DEF FellBack
  <1>3. /\ Cardinality(RolloutsOf(both)) =
             Cardinality(RolloutsOf(us)) + Cardinality(RolloutsOf(vs))
        /\ Cardinality(both) = Cardinality(us) + Cardinality(vs)
    BY RolloutsAddUp, GroupsAddUp
  <1>4. /\ Cardinality(FellBack(both)) = Cardinality(FellBack(us)) + Cardinality(FellBack(vs))
        /\ Cardinality(RolloutsOf(FellBack(both))) =
             Cardinality(RolloutsOf(FellBack(us))) + Cardinality(RolloutsOf(FellBack(vs)))
    <2>1. Cardinality(FellBack(both)) = Cardinality(FellBack(us)) + Cardinality(FellBack(vs))
      BY <1>1, GroupsAddUp
    <2>2. Cardinality(RolloutsOf(FellBack(both))) =
            Cardinality(RolloutsOf(FellBack(us))) + Cardinality(RolloutsOf(FellBack(vs)))
      BY <1>1, RolloutsAddUp
    <2> QED BY <2>1, <2>2
  <1>5. /\ Cardinality(both \ FellBack(both)) =
             Cardinality(us \ FellBack(us)) + Cardinality(vs \ FellBack(vs))
        /\ Cardinality(RolloutsOf(both \ FellBack(both))) =
             Cardinality(RolloutsOf(us \ FellBack(us))) + Cardinality(RolloutsOf(vs \ FellBack(vs)))
    <2>1. Cardinality(both \ FellBack(both)) =
            Cardinality(us \ FellBack(us)) + Cardinality(vs \ FellBack(vs))
      BY <1>2, GroupsAddUp
    <2>2. Cardinality(RolloutsOf(both \ FellBack(both))) =
            Cardinality(RolloutsOf(us \ FellBack(us))) + Cardinality(RolloutsOf(vs \ FellBack(vs)))
      BY <1>2, RolloutsAddUp
    <2> QED BY <2>1, <2>2
  <1>6. /\ c.updateMask \in Seq(BOOLEAN) /\ d.updateMask \in Seq(BOOLEAN)
        /\ c.excludedUids \in Seq(Uids) /\ d.excludedUids \in Seq(Uids)
    BY DEF Controls
  <1>7. /\ c.updateMask \o d.updateMask \in Seq(BOOLEAN)
        /\ Len(c.updateMask \o d.updateMask) = Len(c.updateMask) + Len(d.updateMask)
        /\ c.excludedUids \o d.excludedUids \in Seq(Uids)
        /\ Len(c.excludedUids \o d.excludedUids) = Len(c.excludedUids) + Len(d.excludedUids)
        /\ ToSet(c.excludedUids \o d.excludedUids) = ToSet(c.excludedUids) \cup ToSet(d.excludedUids)
    BY <1>6, ToSetConcat
  <1>8. /\ m.updateMask = c.updateMask \o d.updateMask
        /\ m.totalGroups = c.totalGroups + d.totalGroups
        /\ m.effectiveUids = c.effectiveUids + d.effectiveUids
        /\ m.effectiveStudents = c.effectiveStudents + d.effectiveStudents
        /\ m.excludedStudents = c.excludedStudents + d.excludedStudents
        /\ m.excludedUids = c.excludedUids \o d.excludedUids
    BY DEF MergeControl
  <1>9. m \in Controls
    <2>1. /\ {c.totalGroups, d.totalGroups, c.effectiveUids, d.effectiveUids} \subseteq Int
          /\ {c.effectiveStudents, d.effectiveStudents} \subseteq Int
          /\ {c.excludedStudents, d.excludedStudents} \subseteq Int
      BY DEF Controls
    <2>2. /\ c.totalGroups + d.totalGroups \in Int
          /\ c.effectiveUids + d.effectiveUids \in Int
          /\ c.effectiveStudents + d.effectiveStudents \in Int
          /\ c.excludedStudents + d.excludedStudents \in Int
      BY <2>1
    <2> QED BY <1>7, <2>2 DEF MergeControl, Controls
  <1> HIDE DEF m, both
  <1>10. AccountsFor(m, both)
    BY <1>1, <1>3, <1>4, <1>5, <1>7, <1>8 DEF AccountsFor
  <1> QED BY <1>9, <1>10 DEF m, both

-----------------------------------------------------------------------------
(* The return of rewards. *)

LEMMA ReturnStep ==
  ASSUME EvaluationInv, NEW us \in SUBSET Uids, NEW c,
         us \cap Returned = {}, Returns(us, c),
         c \in Controls /\ AccountsFor(c, Returned \cup us)
  PROVE  EvaluationInv'
  <1>1. /\ DOMAIN rewards' = DOMAIN rewards \cup RolloutsOf(us)
        /\ \A b \in DOMAIN rewards' :
             rewards'[b] = IF b \in DOMAIN rewards THEN rewards[b] ELSE RewardOf(b)
        /\ \A u \in Uids : stage[u] \in Done
        /\ control' = c
        /\ UNCHANGED <<stage, teachers, items, scores, attempts>>
    BY DEF Returns, Done
  <1>2. DOMAIN rewards = RolloutsOf(Returned) /\ RolloutsOf(us) \subseteq Positions
    BY BatchFacts DEF EvaluationInv, ReturnedIsDone
  <1>3. Returned \subseteq Uids
    BY <1>2, BatchFacts DEF Returned
  <1>4. \A u \in us : \E b \in RolloutsOf(us) : Batch[b].uid = u
    BY DEF RolloutsOf, Uids
  <1>5. Returned' = Returned \cup us
    BY <1>1, <1>4 DEF Returned, RolloutsOf
  <1>6. DOMAIN rewards' = RolloutsOf(Returned')
    BY <1>1, <1>2, <1>5 DEF RolloutsOf
  <1>7. ReturnedIsDone'
    BY <1>1, <1>3, <1>5, <1>6 DEF ReturnedIsDone, RolloutsOf
  <1>8. RewardsAreClaims'
    <2> SUFFICES ASSUME NEW b \in DOMAIN rewards'
                 PROVE  rewards'[b] \in IF stage[Batch[b].uid] = "fallback" THEN {0}
                                        ELSE Claims(Batch[b].text)
      BY <1>1 DEF RewardsAreClaims, Claims
    <2>1. CASE b \in DOMAIN rewards
      BY <1>1, <2>1 DEF EvaluationInv, RewardsAreClaims
    <2>2. CASE b \notin DOMAIN rewards
      <3>1. b \in Positions /\ Batch[b].uid \in Uids
        BY <1>1, <1>2, <2>2, BatchFacts
      <3>2. rewards'[b] = RewardOf(b) /\ stage[Batch[b].uid] \in Done
        BY <1>1, <2>2, <3>1
      <3>3. CASE stage[Batch[b].uid] = "success"
        <4>1. RewardOf(b) = StudentScore(Batch[b].uid, IndexOf(b))
          BY <3>3 DEF RewardOf
        <4>2. stage[Batch[b].uid] # "fallback"
          BY <3>3
        <4> QED BY <3>1, <3>2, <3>3, <4>1, <4>2, ScoreIsForText
      <3>4. CASE stage[Batch[b].uid] = "fallback"
        BY <3>2, <3>4 DEF RewardOf
      <3> QED BY <3>2, <3>3, <3>4 DEF Done
    <2> QED BY <2>1, <2>2
  <1>9. ControlAccountsForBatch'
    <2>1. {u \in Returned : stage[u] = "fallback"}' = FellBack(Returned \cup us)
      BY <1>1, <1>5 DEF FellBack
    <2>2. DOMAIN rewards' = RolloutsOf(Returned \cup us)
      BY <1>5, <1>6
    <2> QED BY <1>1, <1>5, <2>1, <2>2 DEF ControlAccountsForBatch, AccountsFor, RolloutsOf
  <1>10. EvaluationTypes'
    BY <1>1 DEF EvaluationInv, EvaluationTypes
  <1>11. (ItemsAreShuffled /\ ScoresAreClaims /\ SuccessIsScored)'
    BY <1>1 DEF EvaluationInv, ItemsAreShuffled, ScoresAreClaims, SuccessIsScored, ItemsOf
  <1> QED BY <1>7, <1>8, <1>9, <1>10, <1>11 DEF EvaluationInv

LEMMA ControlAccounts ==
  ASSUME EvaluationInv
  PROVE  control \in Controls /\ Returned \in SUBSET Uids /\ AccountsFor(control, Returned)
  <1>1. DOMAIN rewards = RolloutsOf(Returned)
    BY DEF EvaluationInv, ReturnedIsDone
  <1>2. Returned \in SUBSET Uids
    BY <1>1, BatchFacts DEF Returned
  <1>3. control \in Controls
    BY DEF EvaluationInv, EvaluationTypes
  <1> QED BY <1>1, <1>2, <1>3 DEF EvaluationInv, ControlAccountsForBatch, AccountsFor, FellBack

LEMMA ReturnBatchStep ==
  ASSUME EvaluationInv, ReturnBatch
  PROVE  EvaluationInv'
  <1>1. Returned = {} /\ Returns(Uids, RewardControl(Uids))
    BY DEF ReturnBatch
  <1>2. RewardControl(Uids) \in Controls /\ AccountsFor(RewardControl(Uids), Returned \cup Uids)
    BY <1>1, RewardControlAccounts
  <1> QED BY <1>1, <1>2, ReturnStep

LEMMA ReturnGroupStep ==
  ASSUME EvaluationInv, NEW u \in Uids, ReturnGroup(u)
  PROVE  EvaluationInv'
  <1> DEFINE one == RewardControl({u})
             c == MergeControl(control, one)
  <1>1. u \notin Returned /\ Returns({u}, c)
    BY DEF ReturnGroup
  <1>2. one \in Controls /\ AccountsFor(one, {u})
    BY RewardControlAccounts
  <1> HIDE DEF one
  <1>3. c \in Controls /\ AccountsFor(c, Returned \cup {u})
    BY <1>1, <1>2, ControlAccounts, MergeAccounts
  <1> HIDE DEF c
  <1> QED BY <1>1, <1>3, ReturnStep

LEMMA InitEvaluation == Init => EvaluationInv
  <1> SUFFICES ASSUME Init PROVE EvaluationInv
    OBVIOUS
  <1> USE DEF Init
  <1>1. Returned = {} /\ DOMAIN rewards = {} /\ RolloutsOf({}) = {}
    BY DEF Returned, RolloutsOf
  <1>2. control \in Controls /\ AccountsFor(control, {})
    BY RewardControlAccounts
  <1>3. EvaluationTypes
    BY <1>2 DEF EvaluationTypes
  <1>4. ItemsAreShuffled /\ ScoresAreClaims /\ SuccessIsScored
    BY DEF ItemsAreShuffled, ScoresAreClaims, SuccessIsScored
  <1>5. ReturnedIsDone /\ RewardsAreClaims
    BY <1>1 DEF ReturnedIsDone, RewardsAreClaims
  <1>6. ControlAccountsForBatch
    BY <1>1, <1>2 DEF ControlAccountsForBatch, AccountsFor, FellBack
  <1> QED BY <1>3, <1>4, <1>5, <1>6 DEF EvaluationInv

LEMMA NextEvaluation == EvaluationInv /\ [Next]_vars => EvaluationInv'
  <1> SUFFICES ASSUME EvaluationInv, [Next]_vars PROVE EvaluationInv'
    OBVIOUS
  <1>1. CASE UNCHANGED vars
    <2> USE <1>1 DEF vars, EvaluationInv
    <2>1. EvaluationTypes'
      BY DEF EvaluationTypes
    <2>2. (ItemsAreShuffled /\ ScoresAreClaims /\ SuccessIsScored)'
      BY DEF ItemsAreShuffled, ScoresAreClaims, SuccessIsScored, ItemsOf
    <2>3. (ReturnedIsDone /\ RewardsAreClaims)'
      BY DEF ReturnedIsDone, RewardsAreClaims, Returned, RolloutsOf
    <2>4. ControlAccountsForBatch'
      BY DEF ControlAccountsForBatch, Returned, RolloutsOf
    <2> QED BY <2>1, <2>2, <2>3, <2>4
  <1>2. ASSUME NEW u \in Uids, TeacherAnswers(u) PROVE EvaluationInv'
    BY <1>2, TeacherStep
  <1>3. ASSUME NEW u \in Uids, RubricIsMade(u) PROVE EvaluationInv'
    BY <1>3, RubricStep
  <1>4. ASSUME NEW u \in Uids, GroupFails(u) PROVE EvaluationInv'
    BY <1>4, FailStep
  <1>5. ASSUME NEW u \in Uids, VerifierReplies(u) PROVE EvaluationInv'
    BY <1>5, ReplyStep
  <1>6. ASSUME NEW u \in Uids, VerifierErrs(u) PROVE EvaluationInv'
    BY <1>6, ErrStep
  <1>7. ASSUME NEW u \in Uids, ReturnGroup(u) PROVE EvaluationInv'
    BY <1>7, ReturnGroupStep
  <1>8. CASE ReturnBatch
    BY <1>8, ReturnBatchStep
  <1> QED BY <1>1, <1>2, <1>3, <1>4, <1>5, <1>6, <1>7, <1>8 DEF Next

-----------------------------------------------------------------------------
\* Whatever the verifier claims, the shuffle, the chunks, the retries and the
\* restored order (_evaluate_group, _restore_scores_by_source) never give a
\* rollout a reward that was claimed for another text, and a group that failed
\* anywhere is worth zero.
THEOREM RewardsFollowTexts == Spec => []RewardsAreClaims
  <1>1. EvaluationInv => RewardsAreClaims
    BY DEF EvaluationInv
  <1> QED BY <1>1, InitEvaluation, NextEvaluation, PTL DEF Spec

\* With a verifier that adds up correctly these are the points that the text
\* was judged to earn.
THEOREM RewardsAreJudged ==
  ASSUME Miscounted = {}
  PROVE  Spec => []RewardsAreJudgedPoints
  <1>1. EvaluationInv => RewardsAreJudgedPoints
    BY DEF EvaluationInv, RewardsAreClaims, RewardsAreJudgedPoints, Claims
  <1> QED BY <1>1, InitEvaluation, NextEvaluation, PTL DEF Spec

\* The reward control (_build_reward_control, _merge_reward_control_dict) counts
\* every rollout once, of one call or merged in any order.
THEOREM ControlAccounted == Spec => []ControlAccountsForBatch
  <1>1. EvaluationInv => ControlAccountsForBatch
    BY DEF EvaluationInv
  <1> QED BY <1>1, InitEvaluation, NextEvaluation, PTL DEF Spec
=============================================================================
