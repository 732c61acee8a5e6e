--------------------------- MODULE GroupEvaluation ---------------------------
(***************************************************************************)
(* RopdRewardManager: the rewards of one batch.  The rollouts are grouped  *)
(* by uid; each group asks the teacher for reference answers, the          *)
(* rubricator for a rubric and the verifier for the scores of all answers, *)
(* shuffled and cut into chunks; the scores are put back in place and      *)
(* become rewards.  Any failure gives the whole group a zero fallback.     *)
(*                                                                         *)
(* A text stands for the answer the judge sees (trimmed after </think>),   *)
(* a score for points of the rubric: the division by the maximum score and *)
(* the rates and histories of the reward control are left out.             *)
(***************************************************************************)
EXTENDS Integers, SequencesExt

CONSTANTS
  Batch,               \* the rollouts, [uid, text], in batch order
  TeacherTexts,        \* answers the teacher may give
  TeacherAnswerCount,  \* ropd.teacher_answer_count
  ChunkSize,           \* ropd.verifier_answer_chunk_size, 0 when it is null
  MaxAttempts,         \* max_step_judge_retry_attempts
  Points,              \* external: points of the criteria a text is judged to meet
  Miscounted,          \* external: texts whose points the verifier may add up wrongly
  MaximumScore         \* external: points of all criteria; bound on a wrong sum

Positions == DOMAIN Batch

Uids == {Batch[b].uid : b \in Positions}

StudentTexts == {Batch[b].text : b \in Positions}

ASSUME GroupEvaluationAssumption ==
  /\ {TeacherAnswerCount, MaxAttempts} \subseteq Nat \ {0}
  /\ {ChunkSize, MaximumScore, Len(Batch)} \subseteq Nat
  /\ Positions = 1..Len(Batch)
  /\ Points \in [StudentTexts \cup TeacherTexts -> 0..MaximumScore]
  /\ Miscounted \subseteq DOMAIN Points

VARIABLES
  stage,     \* where each group is in _evaluate_group
  teachers,  \* its teacher answers
  items,     \* its answers, shuffled
  scores,    \* scores of the answers of the chunks done
  attempts,  \* failed attempts of the current chunk
  rewards,   \* of the rollouts returned so far
  control    \* the reward control returned, or merged by the trainer so far

vars == <<stage, teachers, items, scores, attempts, rewards, control>>

\* _build_groups: the batch positions of some groups, and the index of a rollout
\* in its own.
RolloutsOf(us) == {b \in Positions : Batch[b].uid \in us}

IndexOf(b) == Cardinality({a \in RolloutsOf({Batch[b].uid}) : a <= b})

Moves(u, from, to) ==
  /\ stage[u] = from
  /\ stage' = [stage EXCEPT ![u] = to]
  /\ UNCHANGED <<rewards, control>>

\* The teacher answers with any texts, not too many; of a pool a hash picks one.
\* (Repeats are dropped before the trimming, so two trimmed texts may be equal.)
TeacherAnswers(u) ==
  /\ Moves(u, "teacher", "rubric")
  /\ \E n \in 1..TeacherAnswerCount :
       \E answers \in [1..n -> TeacherTexts] :
         teachers' = [teachers EXCEPT ![u] = answers]
  /\ UNCHANGED <<items, scores, attempts>>

ItemsOf(u) ==
  {[source |-> "teacher", index |-> i, text |-> teachers[u][i]] : i \in DOMAIN teachers[u]}
  \cup
  {[source |-> "student", index |-> IndexOf(b), text |-> Batch[b].text] : b \in RolloutsOf({u})}

\* The order is that of a hash: any.
RubricIsMade(u) ==
  /\ Moves(u, "rubric", "verify")
  /\ \E order \in SetToSeqs(ItemsOf(u)) : items' = [items EXCEPT ![u] = order]
  /\ UNCHANGED <<teachers, scores, attempts>>

\* An error of the teacher, the rubricator or the verifier that is not one of
\* STEP_RECOVERABLE_REWARD_ERROR_TYPES, in the last case at any chunk.
GroupFails(u) ==
  /\ \E at \in {"teacher", "rubric", "verify"} : Moves(u, at, "fallback")
  /\ UNCHANGED <<teachers, items, scores, attempts>>

-----------------------------------------------------------------------------
Chunk(u) ==
  LET done == Len(scores[u])
      size == IF ChunkSize = 0 THEN Len(items[u]) ELSE ChunkSize
  IN  SubSeq(items[u], done + 1, Min({done + size, Len(items[u])}))

\* What the verifier may return for a chunk: an entry per answer under its
\* index, in any order, with a final_score that it added up itself.
Claims(t) == IF t \in Miscounted THEN 0..MaximumScore ELSE {Points[t]}

Replies(chunk) ==
  {reply \in [DOMAIN chunk -> [index : DOMAIN chunk, score : 0..MaximumScore]] :
     /\ IsInjective([i \in DOMAIN chunk |-> reply[i].index])
     /\ \A i \in DOMAIN chunk : reply[i].score \in Claims(chunk[reply[i].index].text)}

\* parse_ropd_scores: the indices must be 1..n in order.
InOrder(reply) == \A i \in DOMAIN reply : reply[i].index = i

\* The final_score is kept as it was claimed: the recomputed one is dropped.
VerifierReplies(u) ==
  /\ \E reply \in Replies(Chunk(u)) :
       IF InOrder(reply)
       THEN /\ scores' = [scores EXCEPT ![u] = @ \o [i \in DOMAIN reply |-> reply[i].score]]
            /\ Moves(u, "verify",
                     IF Len(scores'[u]) = Len(items[u]) THEN "success" ELSE "verify")
       ELSE Moves(u, "verify", "fallback") /\ UNCHANGED scores
  /\ attempts' = [attempts EXCEPT ![u] = 0]
  /\ UNCHANGED <<teachers, items>>

\* A recoverable error: the chunk is tried again, up to MaxAttempts times.
VerifierErrs(u) ==
  /\ attempts' = [attempts EXCEPT ![u] = @ + 1]
  /\ Moves(u, "verify", IF attempts'[u] < MaxAttempts THEN "verify" ELSE "fallback")
  /\ UNCHANGED <<teachers, items, scores>>

-----------------------------------------------------------------------------
ScoreAfterTeachers(u, i) == scores[u][Len(teachers[u]) + i]   \* mutant: not unshuffled

\* _restore_scores_by_source, for the i-th rollout.
StudentScore(u, i) ==
  LET at == CHOOSE j \in DOMAIN items[u] :
              items[u][j].source = "student" /\ items[u][j].index = i
  IN  scores[u][at]

RewardOf(b) ==
  IF stage[Batch[b].uid] = "success" THEN StudentScore(Batch[b].uid, IndexOf(b)) ELSE 0

\* _build_reward_control of a call that judged the groups us: even the
\* rollouts of an excluded group are kept in the update mask.
RewardControl(us) ==
  LET failed == {u \in us : stage[u] = "fallback"}
      effective == Cardinality(RolloutsOf(us \ failed))
  IN  [updateMask |-> [i \in 1..Cardinality(RolloutsOf(us)) |-> TRUE],
       totalGroups |-> Cardinality(us),
       effectiveUids |-> Cardinality(us) - Cardinality(failed),
       effectiveStudents |-> effective,
       excludedStudents |-> Cardinality(RolloutsOf(us)) - effective,
       excludedUids |-> SetToSeq(failed)]

LastControl(base, incoming) == incoming   \* mutant: the last sample's control

\* _merge_reward_control_dict: lists are joined and counts added.
MergeControl(base, incoming) ==
  [updateMask |-> base.updateMask \o incoming.updateMask,
   totalGroups |-> base.totalGroups + incoming.totalGroups,
   effectiveUids |-> base.effectiveUids + incoming.effectiveUids,
   effectiveStudents |-> base.effectiveStudents + incoming.effectiveStudents,
   excludedStudents |-> base.excludedStudents + incoming.excludedStudents,
   excludedUids |-> base.excludedUids \o incoming.excludedUids]

\* The groups whose rewards were returned.
Returned == {Batch[b].uid : b \in DOMAIN rewards}

Returns(us, newControl) ==
  /\ \A u \in Uids : stage[u] \in {"success", "fallback"}
  /\ rewards' = [b \in DOMAIN rewards \cup RolloutsOf(us) |->
                  IF b \in DOMAIN rewards THEN rewards[b] ELSE RewardOf(b)]
  /\ control' = newControl
  /\ UNCHANGED <<stage, teachers, items, scores, attempts>>

\* The synchronous trainer judges the batch in one call,
ReturnBatch == Returned = {} /\ Returns(Uids, RewardControl(Uids))

\* the strict-async one a group a call, and merges what the judges returned, in
\* any order, one after the other.
ReturnGroup(u) ==
  u \notin Returned /\ Returns({u}, MergeControl(control, RewardControl({u})))

Init ==
  /\ stage = [u \in Uids |-> "teacher"]
  /\ teachers = [u \in Uids |-> <<>>]
  /\ items = [u \in Uids |-> <<>>]
  /\ scores = [u \in Uids |-> <<>>]
  /\ attempts = [u \in Uids |-> 0]
  /\ rewards = <<>>
  /\ control = RewardControl({})

Next ==
  \/ \E u \in Uids :
       \/ TeacherAnswers(u) \/ RubricIsMade(u) \/ GroupFails(u)
       \/ VerifierReplies(u) \/ VerifierErrs(u)
       \/ ReturnGroup(u)
  \/ ReturnBatch

Spec == Init /\ [][Next]_vars

-----------------------------------------------------------------------------
\* Each rollout is rewarded for its own text, with the points it was judged to
\* earn, through the shuffle, the chunks and the retries; a group that failed
\* at any chunk is worth zero as a whole.
RewardsAreJudgedPoints ==
  \A b \in DOMAIN rewards :
    rewards[b] = IF stage[Batch[b].uid] = "fallback" THEN 0 ELSE Points[Batch[b].text]

\* The control counts every rollout returned so far once, as effective or
\* excluded, and names the groups that fell back, whether it is one call's or
\* merged; the update mask has an entry per rollout.
ControlAccountsForBatch ==
  LET excluded == {u \in Returned : stage[u] = "fallback"} IN
    /\ Len(control.updateMask) = Cardinality(DOMAIN rewards)
    /\ control.totalGroups = Cardinality(Returned)
    /\ control.effectiveUids = Cardinality(Returned \ excluded)
    /\ control.effectiveStudents = Cardinality(RolloutsOf(Returned \ excluded))
    /\ control.excludedStudents = Cardinality(RolloutsOf(excluded))
    /\ ToSet(control.excludedUids) = excluded
    /\ Len(control.excludedUids) = Cardinality(excluded)
=============================================================================
