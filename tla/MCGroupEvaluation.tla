-------------------------- MODULE MCGroupEvaluation --------------------------
\* Two rollouts of one prompt and one of another, mixed in the batch.
EXTENDS GroupEvaluation

CONSTANTS g, h, s1, s2, s3, t1, t2

MCBatch ==
  <<[uid |-> g, text |-> s1], [uid |-> h, text |-> s2], [uid |-> g, text |-> s3]>>

MCPoints ==
  [t \in {s1, s2, s3, t1, t2} |->
     CASE t = s1 -> 1 [] t = s2 -> 2 [] t = s3 -> 0 [] OTHER -> 2]
=============================================================================
